---- MODULE Spec2Model ----
(***************************************************************************)
(* Model of the tea diary bot: the persistence gateway (create_tasting,    *)
(* _next_seq_for_user, del_ok_cb) run by concurrent database sessions,     *)
(* and the photo step of the guided-entry flow (photo_add, the album       *)
(* debouncer, photos_done, photos_skip, finalize_save) run by concurrent   *)
(* handler tasks of one event loop.                                        *)
(***************************************************************************)
EXTENDS Integers, Sequences, FiniteSets, TLC

VARIABLES
    \* ---- relational store and gateway sessions
    dialect,      \* bind.dialect.name of the engine
    tastings,     \* committed rows of table tastings
    sess,         \* one create_tasting call per session: its position and locals
    nextId,       \* autoincrement source of tastings.id
    issued,       \* history: per user, the highest seq_no ever committed
    deleted,      \* history: whether del_ok_cb has deleted a row
    calls,        \* history: number of create_tasting calls made so far
    \* ---- the bot process: FSM storage, album buffer, coroutines
    fsm,          \* FSMContext state of each user's conversation
    data,         \* FSMContext data of each user's conversation: the draft
    album,        \* ALBUM_BUFFER, in insertion order
    timers,       \* _album_timeout_handler tasks asleep in asyncio.sleep
    tasks,        \* handler coroutines suspended at an await of the transport
    nextEv,       \* number of the next inbound update (it names the photo it carries)
    lastFail,     \* history: the last finalize whose create_tasting raised
    bursts,       \* history: per album key, the photos buffered between deadlines
    popped,       \* history: per album key, the file lists taken out of the buffer
    chat,         \* per user, the questions in the chat whose buttons are active
    \* ---- the validators
    vcall,        \* one call of a validator: its arguments and its outcome
    \* ---- the record cards
    card,         \* history: the last edit or delete of a record and its outcome
    \* ---- whole conversations
    horizon       \* 0, or the number of updates of a run driven one update at a time

gatewayVars == <<dialect, sess, issued, deleted, calls>>
botVars == <<fsm, data, album, timers, tasks, nextEv, lastFail, bursts, popped,
            chat>>
restVars == <<gatewayVars, vcall, card, horizon>>
\* what a handler step that sends no question leaves alone
idleVars == <<restVars, chat>>
vars == <<dialect, tastings, sess, nextId, issued, deleted, calls,
          fsm, data, album, timers, tasks, nextEv, lastFail, bursts, popped,
          chat, vcall, card, horizon>>

\* ------------------------------------------------------------------ bounds
NumProcs == 2
NumUsers == 1
MaxInitRows == 1
MaxCalls == 3

\* no validator has been called
NoCall == [fn |-> "none", text |-> <<>>, min |-> 0, max |-> 0, precision |-> 0,
           done |-> FALSE, raised |-> "none", value |-> 0]

\* no record card has been edited or deleted
NoCard == [op |-> "none", uid |-> 0, tid |-> 0, ok |-> FALSE]

Procs == 1..NumProcs
Users == 1..NumUsers

\* ------------------------------------------------------------- helpers
\* Python's None where 0 is a value
None == -1

SetMax(S) == CHOOSE x \in S : \A y \in S : y <= x

RowsOf(rows, u) == {r \in rows : r.user_id = u}

\* (last_seq or 0) of the rows a statement sees
LastSeq(rows) == IF rows = {} THEN 0 ELSE SetMax({r.seq_no : r \in rows})

\* a row of tastings with its photo rows; draft and must are history: the draft
\* the row was made from and the buffered photos its finalize took over
Row(id, u, n, dr, ph, mu) ==
    [id |-> id, user_id |-> u, seq_no |-> n, draft |-> dr, photos |-> ph, must |-> mu,
     infusions |-> <<>>, category |-> 0, temp_c |-> None]

\* ------------------------------------------------- create_tasting (gateway)
MaxCreateAttemptsThree == 3
MaxCreateAttemptsOne == 1
MaxCreateAttempts == 2

\* args is the number of infusions and of photos the caller passed
IdleSess == [pc |-> "idle", uid |-> 0, attempts |-> 0, viol |-> 0, snap |-> {},
             lock |-> 0, seq |-> 0, row |-> 0, err |-> "none", args |-> <<0, 0>>]

\* rows inserted and flushed by open transactions, not yet committed
Pending(p) == sess[p].row # 0

\* with_for_update(): the row lock is taken only on a non-embedded backend
UsesRowLock == dialect # "sqlite"

LockedByOther(p, id) == \E q \in Procs \ {p} : sess[q].lock = id

\* head of `while attempts < _MAX_CREATE_ATTEMPTS: attempts += 1`, then
\* SessionLocal() / session.begin(); falling out of the loop raises RuntimeError
LoopHead(s) ==
    IF s.attempts < MaxCreateAttempts
    THEN [s EXCEPT !.attempts = @ + 1, !.pc = "select", !.snap = {}, !.lock = 0,
                   !.seq = 0, !.row = 0]
    ELSE [s EXCEPT !.pc = "failed", !.err = "runtime", !.snap = {}, !.lock = 0,
                   !.seq = 0, !.row = 0]

\* except IntegrityError: the transaction is rolled back (pending row and row
\* lock gone); `if attempts >= _MAX_CREATE_ATTEMPTS: raise`, else loop again
OnIntegrityError(s) ==
    IF s.attempts >= MaxCreateAttempts
    THEN [s EXCEPT !.pc = "failed", !.err = "integrity", !.viol = @ + 1,
                   !.snap = {}, !.lock = 0, !.seq = 0, !.row = 0]
    ELSE LoopHead([s EXCEPT !.viol = @ + 1])

\* the unique index ux_tastings_user_seq on (user_id, seq_no)
UniqueViolationNever(rows, u, n) == FALSE
UniqueViolation(rows, u, n) == \E r \in rows : r.user_id = u /\ r.seq_no = n

\* create_tasting is entered by a session that runs no other call: attempts = 0
\* and the first pass of the loop head
CreateCall(p, u) ==
    /\ sess[p].pc \in {"idle", "done", "failed"}
    /\ calls < MaxCalls
    /\ calls' = calls + 1
    /\ sess' = [sess EXCEPT ![p] = LoopHead([IdleSess EXCEPT !.uid = u])]
    /\ UNCHANGED <<dialect, tastings, nextId, issued, deleted, botVars, vcall, card, horizon>>

\* _next_seq_for_user: the statement takes its snapshot. Without FOR UPDATE, or
\* when the user has no row to lock, it returns at once.
NextSeqForUser(p) ==
    /\ sess[p].pc = "select"
    /\ LET mine == RowsOf(tastings, sess[p].uid) IN
       IF ~UsesRowLock \/ mine = {}
       THEN sess' = [sess EXCEPT ![p].seq = LastSeq(mine) + 1, ![p].pc = "insert"]
       ELSE sess' = [sess EXCEPT ![p].snap = {r.id : r \in mine}, ![p].pc = "lockwait"]
    /\ UNCHANGED <<dialect, tastings, nextId, issued, deleted, calls, botVars, vcall, card, horizon>>

\* SELECT ... ORDER BY seq_no DESC LIMIT 1 FOR UPDATE: the first row of the
\* snapshot that still exists is locked (waiting for its holder) and returned
LockRow(p) ==
    /\ sess[p].pc = "lockwait"
    /\ LET live == {r \in tastings : r.id \in sess[p].snap} IN
       IF live = {}
       THEN sess' = [sess EXCEPT ![p].seq = 1, ![p].pc = "insert", ![p].snap = {}]
       ELSE LET top == CHOOSE r \in live : r.seq_no = LastSeq(live) IN
            /\ ~LockedByOther(p, top.id)
            /\ sess' = [sess EXCEPT ![p].seq = top.seq_no + 1, ![p].lock = top.id,
                                    ![p].pc = "insert", ![p].snap = {}]
    /\ UNCHANGED <<dialect, tastings, nextId, issued, deleted, calls, botVars, vcall, card, horizon>>

\* an INSERT waits for an open transaction holding the same index key (on
\* sqlite: for any open write transaction)
InsertBlocked(p) ==
    \E q \in Procs \ {p} :
        /\ Pending(q)
        /\ \/ ~UsesRowLock
           \/ sess[q].uid = sess[p].uid /\ sess[q].seq = sess[p].seq

\* session.add(tasting); session.flush()
InsertRow(p) ==
    /\ sess[p].pc = "insert"
    /\ IF UniqueViolation(tastings, sess[p].uid, sess[p].seq)
       THEN /\ sess' = [sess EXCEPT ![p] = OnIntegrityError(sess[p])]
            /\ UNCHANGED nextId
       ELSE /\ ~InsertBlocked(p)
            /\ sess' = [sess EXCEPT ![p].row = nextId, ![p].pc = "children"]
            /\ nextId' = nextId + 1
    /\ UNCHANGED <<dialect, tastings, issued, deleted, calls, botVars, vcall, card, horizon>>

\* the rows a rolled back transaction leaves visible: none of its own
AfterRollbackPartial(rows, row) == rows \cup {row}
AfterRollback(rows, row) == rows

\* the infusion rows and the photo rows, then COMMIT on leaving
\* `with session.begin()`, refresh and return. save_photo_bytes, called for
\* each photo that carries bytes, may raise (OSError): that is no
\* IntegrityError, so the transaction rolls back and the error leaves
\* create_tasting at once. The caller's infusions and photos are drawn here,
\* where they are first read.
Commit(p) ==
    /\ sess[p].pc = "children"
    /\ \E ninf \in 0..1, nphotos \in 0..1, ok \in BOOLEAN :
        LET parent == Row(sess[p].row, sess[p].uid, sess[p].seq, 0, <<>>, {})
            full == [parent EXCEPT !.infusions = [i \in 1..ninf |-> [n |-> i]],
                                   !.photos = [i \in 1..nphotos |-> i]]
        IN
        /\ (nphotos = 0) => ok
        /\ IF ok
           THEN /\ tastings' = tastings \cup {full}
                /\ issued' = [issued EXCEPT ![sess[p].uid] =
                                 IF sess[p].seq > @ THEN sess[p].seq ELSE @]
                /\ sess' = [sess EXCEPT ![p].pc = "done", ![p].lock = 0,
                                        ![p].args = <<ninf, nphotos>>]
           ELSE /\ tastings' = AfterRollback(tastings, parent)
                /\ sess' = [sess EXCEPT ![p].pc = "failed", ![p].err = "storage",
                                        ![p].row = 0, ![p].lock = 0, ![p].seq = 0,
                                        ![p].args = <<ninf, nphotos>>]
                /\ UNCHANGED issued
    /\ UNCHANGED <<dialect, nextId, deleted, calls, botVars, vcall, card, horizon>>

\* if not t or t.user_id != uid: the operation is refused
OwnsAny(r, u) == TRUE
Owns(r, u) == r.user_id = u

\* del_ok_cb: s.get(Tasting, tid); a missing row or another user's row is
\* refused; else s.delete(t); s.commit() (a locked row makes the DELETE wait)
DelOk(u, tid) ==
    /\ LET mine == {r \in tastings : r.id = tid /\ Owns(r, u)} IN
       IF mine = {}
       THEN /\ card' = [op |-> "delete", uid |-> u, tid |-> tid, ok |-> FALSE]
            /\ UNCHANGED <<tastings, deleted>>
       ELSE /\ \A q \in Procs : sess[q].lock # tid
            /\ tastings' = tastings \ mine
            /\ deleted' = TRUE
            /\ card' = [op |-> "delete", uid |-> u, tid |-> tid, ok |-> TRUE]
    /\ UNCHANGED <<dialect, sess, nextId, issued, calls, botVars, vcall, horizon>>

InitRows(k) == {Row(i, 1, i, 0, <<>>, {}) : i \in 1..k}

InitGateway ==
    /\ dialect \in {"sqlite", "postgresql"}
    /\ \E k \in 0..MaxInitRows : tastings = InitRows(k) /\ nextId = k + 1
    /\ sess = [p \in Procs |-> IdleSess]
    /\ issued = [u \in Users |-> LastSeq(RowsOf(tastings, u))]
    /\ deleted = FALSE
    /\ calls = 0
    /\ fsm = <<>> /\ data = <<>> /\ album = <<>> /\ timers = {} /\ tasks = {}
    /\ nextEv = 1 /\ lastFail = 0 /\ bursts = <<>> /\ popped = <<>>
    /\ chat = <<>> /\ vcall = NoCall /\ card = NoCard /\ horizon = 0

NextGateway ==
    \/ \E p \in Procs, u \in Users : CreateCall(p, u)
    \/ \E p \in Procs : NextSeqForUser(p)
    \/ \E p \in Procs : LockRow(p)
    \/ \E p \in Procs : InsertRow(p)
    \/ \E p \in Procs : Commit(p)
    \/ \E u \in Users, r \in tastings : DelOk(u, r.id)

SpecGateway == InitGateway /\ [][NextGateway]_vars

\* ------------------------------------------------------- gateway properties
Finished(p) == sess[p].pc \in {"done", "failed"}

\* C1: in every reachable state of the store no two committed records of the
\* same user have the same seq_no, whatever the number of concurrent creates
\* and the interleaving of their read-max, insert and commit steps.
C1_UniqueSeqPerUser ==
    \A r1 \in tastings, r2 \in tastings :
        (r1.user_id = r2.user_id /\ r1.seq_no = r2.seq_no) => r1.id = r2.id

\* C1 witness: a create that lost the race (its first insert hit the unique
\* index) has committed on its second attempt next to the winner's record.
C1_Witness ==
    \E p \in Procs, q \in Procs :
        /\ p # q
        /\ sess[p].pc = "done" /\ sess[q].pc = "done"
        /\ sess[p].uid = sess[q].uid
        /\ sess[p].attempts = 2
        /\ \E r1 \in tastings, r2 \in tastings :
              r1.id = sess[p].row /\ r2.id = sess[q].row /\ r1.id # r2.id

\* the two calls of a run that made exactly two create calls, both for one
\* user, one per session, with no delete and no blob-store failure
TwoCreatesOnly(p, q) ==
    /\ p # q
    /\ calls = 2
    /\ ~deleted
    /\ Finished(p) /\ Finished(q)
    /\ sess[p].uid = sess[q].uid
    /\ sess[p].err # "storage" /\ sess[q].err # "storage"

\* C2: when exactly two create operations of the same user run concurrently
\* (any interleaving, also both reading the same maximum before either
\* commits), both complete successfully and the two records get the seq_no
\* values previous maximum + 1 and previous maximum + 2.
C2_TwoCreatesContiguous ==
    \A p \in Procs, q \in Procs :
        TwoCreatesOnly(p, q) =>
            /\ sess[p].pc = "done" /\ sess[q].pc = "done"
            /\ LET new == {r \in tastings : r.id \in {sess[p].row, sess[q].row}}
                   prev == LastSeq(RowsOf(tastings, sess[p].uid) \ new)
               IN  /\ Cardinality(new) = 2
                   /\ {r.seq_no : r \in new} = {prev + 1, prev + 2}

\* C2 witness: both calls are done and one of them needed its second attempt,
\* so both had read the same maximum.
C2_Witness ==
    \E p \in Procs, q \in Procs :
        /\ TwoCreatesOnly(p, q)
        /\ sess[p].pc = "done" /\ sess[q].pc = "done"
        /\ sess[p].attempts = 2

\* C5: a create call makes at most 2 attempts: every attempt after the first
\* follows exactly one uniqueness violation, a violation on the second attempt
\* ends the call with a failure, and the step that fails commits nothing.
C5_AtMostTwoAttempts ==
    /\ [](\A p \in Procs :
            /\ sess[p].attempts <= 2
            /\ sess[p].pc \in {"select", "lockwait", "insert", "children", "done"}
                  => sess[p].viol = sess[p].attempts - 1
            /\ (sess[p].pc = "failed" /\ sess[p].err = "integrity")
                  => (sess[p].attempts = 2 /\ sess[p].viol = 2 /\ sess[p].row = 0)
            /\ sess[p].viol >= 2 => sess[p].pc = "failed")
    /\ [][\A p \in Procs :
            (sess[p].pc # "failed" /\ sess'[p].pc = "failed") => tastings' = tastings]_vars

\* C5 witness: a call has failed after two uniqueness violations.
C5_Witness ==
    \E p \in Procs :
        sess[p].pc = "failed" /\ sess[p].err = "integrity" /\ sess[p].viol = 2

\* C6: seq_no is per-user monotonically increasing: the seq_no of a newly
\* committed record is strictly greater than every seq_no committed earlier for
\* that user, records deleted in between included.
C6_SeqStrictlyIncreasing ==
    [][\A r \in tastings' \ tastings : r.seq_no > issued[r.user_id]]_vars

\* ===================================================== the photo step (bot)
\* One polling process; every update is handled by its own coroutine, and the
\* coroutines of one user interleave at the awaits on the transport
\* (get_file, download_file, answer, delete_message) and at asyncio.sleep.
\* FSM storage is in memory: get_data, update_data, clear never yield.

\* ------------------------------------------------------------------ bounds
MaxPhotos == 2        \* PHOTO_LIMIT of the deployment
MaxEvents == 3        \* inbound updates considered
NumAlbums == 1        \* distinct media_group_id values

Albums == 1..NumAlbums

\* the number of the last update the bot receives: max updates arrive at any
\* moment, or horizon updates arrive one after the other has been handled
Horizon(max) == IF horizon = 0 THEN max ELSE horizon

\* ------------------------------------------------------------- draft store
\* the questionnaire keys of the FSM data.  None is a key that is absent or
\* holds None; a joined multi-select value is kept as the sequence of its parts,
\* so <<>> is the None that ",".join(...) or None gives; infusion_n None reads 1;
\* live_q_id is the message id of the question ask_next sent last
EmptyForm ==
    [flow_kind |-> "none", year |-> None, region |-> None, grams |-> None,
     temp_c |-> None, gear |-> None, aroma_dry |-> None, aroma_warmed |-> None,
     effects |-> <<>>, rating |-> None, summary |-> None,
     cancel_return_state |-> "none",
     cur_taste_sel |-> <<>>, cur_taste |-> <<>>, awaiting_custom_taste |-> FALSE,
     cur_aftertaste_sel |-> <<>>, cur_aftertaste |-> <<>>,
     awaiting_custom_after |-> FALSE,
     infusions |-> <<>>, infusion_n |-> None, live_q_id |-> None,
     aroma_dry_sel |-> <<>>, aroma_warmed_sel |-> <<>>]

\* 0 stands for None / key absent.  draft is history: which draft the data is.
EmptyData == [user_id |-> 0, name |-> 0, category |-> 0, new_photos |-> <<>>,
              photo_limit |-> 0, progress |-> 0, draft |-> 0, form |-> EmptyForm]

\* state.clear(): state None, data {}
ClearDataKeep(d) == d
ClearData(d) == EmptyData

\* int(data.get("photo_limit", MAX_PHOTOS))
LimitOf(d) == IF d.photo_limit = 0 THEN MaxPhotos ELSE d.photo_limit

Min(a, b) == IF a <= b THEN a ELSE b
Range(q) == {q[i] : i \in DOMAIN q}
PrefixAll(q, n) == q
\* q[:n]
Prefix(q, n) == SubSeq(q, 1, Min(n, Len(q)))

\* the draft after start_new: only user_id and the empty collections are set
StartNewKeep(u, id) ==
    [data[u] EXCEPT !.user_id = u, !.draft = id, !.new_photos = <<>>,
                    !.form.infusions = <<>>, !.form.infusion_n = 1,
                    !.form.effects = <<>>, !.form.cur_taste_sel = <<>>,
                    !.form.cur_aftertaste_sel = <<>>]
StartNew(u, id) ==
    [EmptyData EXCEPT !.user_id = u, !.draft = id, !.form.infusion_n = 1]

InfusionUnnumbered(n, taste, aftertaste) ==
    [n |-> 0, taste |-> taste, aftertaste |-> aftertaste]
\* one infusion dict of the draft: n and the cur_* values it was built from
Infusion(n, taste, aftertaste) == [n |-> n, taste |-> taste, aftertaste |-> aftertaste]

\* the questionnaire keys once the full survey has been answered with k infusions
FullForm(k) ==
    [EmptyForm EXCEPT !.year = 1, !.region = 1, !.grams = 1, !.temp_c = 1,
                      !.gear = 1, !.aroma_dry = 1, !.aroma_warmed = 1,
                      !.effects = <<1>>, !.rating = 1, !.summary = 1,
                      !.infusions = [i \in 1..k |-> Infusion(i, <<1>>, <<1>>)],
                      !.infusion_n = k + 1]

\* the draft when prompt_photos has run at the end of the survey
AtPhotoStep(u) == [user_id |-> u, name |-> 1, category |-> 1, new_photos |-> <<>>,
                   photo_limit |-> MaxPhotos, progress |-> 1, draft |-> u,
                   form |-> FullForm(1)]

\* ------------------------------------------------------------ ALBUM_BUFFER
IsKeyGroup(e, u, g) == e.gid = g
\* ALBUM_BUFFER is keyed by (uid, media_group_id)
IsKey(e, u, g) == e.uid = u /\ e.gid = g
HasEntry(a, u, g) == \E i \in DOMAIN a : IsKey(a[i], u, g)
EntryOf(a, u, g) == a[CHOOSE i \in DOMAIN a : IsKey(a[i], u, g)]
\* ALBUM_BUFFER.pop(key, None)
PopNone(a, u, g) == a
\* ALBUM_BUFFER.pop(key, None)
Pop(a, u, g) == SelectSeq(a, LAMBDA e : ~IsKey(e, u, g))
\* keys = [key for key in list(ALBUM_BUFFER.keys()) if key[0] == uid]
KeysOf(a, u) ==
    LET mine == SelectSeq(a, LAMBDA e : e.uid = u)
    IN  [i \in DOMAIN mine |-> mine[i].gid]
PutFileKeepTask(a, u, g, f, id) ==
    IF HasEntry(a, u, g)
    THEN [i \in DOMAIN a |->
            IF IsKey(a[i], u, g) THEN [a[i] EXCEPT !.files = Append(@, f)] ELSE a[i]]
    ELSE Append(a, [uid |-> u, gid |-> g, files |-> <<f>>, task |-> id])
\* photo_add: get or create the entry, append the file, replace the task
PutFile(a, u, g, f, id) ==
    IF HasEntry(a, u, g)
    THEN [i \in DOMAIN a |->
            IF IsKey(a[i], u, g)
            THEN [a[i] EXCEPT !.files = Append(@, f), !.task = id]
            ELSE a[i]]
    ELSE Append(a, [uid |-> u, gid |-> g, files |-> <<f>>, task |-> id])

\* task.cancel() on the entry's sleeping timer
CancelledNone(tm, id) == tm
Cancelled(tm, id) == {t \in tm : t.id # id}

\* ------------------------------------------------- history of bursts/flushes
NoBursts == [u \in Users |-> [g \in Albums |-> [closed |-> <<>>, open |-> <<>>]]]
NoPopped == [u \in Users |-> [g \in Albums |-> <<>>]]

BurstAdd(b, u, g, f) == [b EXCEPT ![u][g].open = Append(@, f)]
BurstClose(b, u, g) ==
    IF b[u][g].open = <<>> THEN b
    ELSE [b EXCEPT ![u][g] = [closed |-> Append(@.closed, @.open), open |-> <<>>]]

\* ------------------------------------------------------ handler coroutines
\* a handler suspended at an await: its position and its local variables.
\* snap, snapfsm, must are history: the draft and step the finalize handler
\* found when it was called, and the buffered photos it took over.
\* prev: the live_q_id that ask_next read, Unread while it has not read it;
\* clicked: the message whose button brought the callback, None when the
\* update is a message or the button is on a question asked earlier; base and
\* batch are history: the photo list and the buffered files that
\* _process_album_entry found; kb:
\* whether the question the handler is about to send carries buttons; failed:
\* history, the files whose get_file or download_file raised.
Unread == -2
Handler(ev, kind, u) ==
    [ev |-> ev, kind |-> kind, uid |-> u, pc |-> "start", photos |-> <<>>,
     files |-> <<>>, saved |-> FALSE, limit |-> 0, keys |-> <<>>,
     snap |-> EmptyData, snapfsm |-> "none", must |-> {}, goto |-> "none",
     flow |-> "none", prev |-> Unread, clicked |-> None, kb |-> FALSE,
     base |-> <<>>, batch |-> <<>>, failed |-> {}]

Finalizer(ev, kind, u) ==
    [Handler(ev, kind, u) EXCEPT !.snap = data[u], !.snapfsm = fsm[u]]

\* a category is 1 (a button), Custom (typed) or the label of "don't know"
Fallback == 3  \* QUICK_CATEGORY_FALLBACK

NoFail == [ev |-> 0, uid |-> 0, snap |-> EmptyData, fsm |-> "none"]

\* _process_album_entry up to its first await
ProcessEntry(h, e, dat) ==
    LET photos == dat.new_photos
        limit == LimitOf(dat)
        capacity == limit - Len(photos)
        hh == [h EXCEPT !.base = photos, !.batch = e.files]
    IN  IF capacity <= 0
        THEN [hh EXCEPT !.pc = "progress", !.photos = photos, !.limit = limit,
                       !.files = <<>>, !.saved = FALSE]
        ELSE [hh EXCEPT !.pc = "download", !.photos = photos, !.limit = limit,
                       !.files = Prefix(e.files, capacity), !.saved = FALSE]

\* finalize_save from the second get_data on: build the record, create_tasting,
\* state.clear().  create_tasting raises when a NOT NULL column is None (both
\* attempts fail alike), when a photo cannot be stored, or when the database
\* is unreachable; the exception leaves the handler before state.clear().
CommitStep(h, dat, rest) ==
    LET u == h.uid
        quick == IF h.flow = "none" THEN dat.form.flow_kind = "quick"
                 ELSE h.flow = "quick"
        \* finalize_quick_save: category or QUICK_CATEGORY_FALLBACK, rating as
        \* stored; finalize_save: rating defaults to 0
        valid == /\ dat.user_id # 0 /\ dat.name # 0
                 /\ (quick \/ dat.category # 0)
                 /\ (quick => dat.form.rating # None)
        photo_entries == IF quick THEN dat.new_photos
                         ELSE Prefix(dat.new_photos, MaxPhotos)
        infusions_data == IF quick THEN <<>> ELSE dat.form.infusions
        category == IF quick /\ dat.category = 0 THEN Fallback ELSE dat.category
    IN  \E ok \in BOOLEAN :
          /\ ok => valid
          /\ IF ok
             THEN /\ tastings' = tastings \cup
                        {[Row(nextId, dat.user_id,
                              LastSeq(RowsOf(tastings, dat.user_id)) + 1,
                              dat.draft, photo_entries, h.must)
                            EXCEPT !.infusions = infusions_data,
                                   !.category = category,
                                   !.temp_c = dat.form.temp_c]}
                  /\ nextId' = nextId + 1
                  /\ data' = [data EXCEPT ![u] = ClearData(dat)]
                  /\ fsm' = [fsm EXCEPT ![u] = "none"]
                  /\ UNCHANGED lastFail
             ELSE /\ data' = [data EXCEPT ![u] = dat]
                  /\ lastFail' = [ev |-> h.ev, uid |-> u, snap |-> h.snap,
                                   fsm |-> h.snapfsm]
                  /\ UNCHANGED <<tastings, nextId, fsm>>
          /\ tasks' = rest

\* for key in keys: entry = ALBUM_BUFFER.pop(key, None); if not entry: continue
RECURSIVE SkipGone(_, _, _)
SkipGone(a, u, keys) ==
    IF keys = <<>> \/ HasEntry(a, u, Head(keys)) THEN keys
    ELSE SkipGone(a, u, Tail(keys))

\* flush_user_albums(uid, state) inside finalize_save, from the loop head to the
\* next await; when no key is left, finalize_save goes on to create the record
FlushThenCommit(h, dat, keys, rest) ==
    LET u == h.uid
        live == SkipGone(album, u, keys)
    IN  IF live = <<>>
        THEN CommitStep(h, dat, rest) /\ UNCHANGED <<album, timers, bursts, popped>>
        ELSE LET g == Head(live)
                 e == EntryOf(album, u, g)
             IN  /\ album' = Pop(album, u, g)
                 /\ timers' = Cancelled(timers, e.task)
                 /\ bursts' = BurstClose(bursts, u, g)
                 /\ popped' = [popped EXCEPT ![u][g] = Append(@, e.files)]
                 /\ tasks' = rest \cup
                        {[ProcessEntry(h, e, dat) EXCEPT !.keys = Tail(live)]}
                 /\ data' = [data EXCEPT ![u] = dat]
                 /\ UNCHANGED <<tastings, nextId, fsm, lastFail>>

\* finalize_after_photos -> finalize_save: flush_user_albums(data.get("user_id"))
FinalizeSave(h, dat, rest) ==
    FlushThenCommit([h EXCEPT !.flow = IF dat.form.flow_kind = "quick"
                                       THEN "quick" ELSE "full"],
                    dat,
                    IF dat.user_id = 0 THEN <<>> ELSE KeysOf(album, dat.user_id),
                    rest)

IsFinalizer(t) == t.kind \in {"done", "skip"}

\* photo_add: if len(photos) >= limit
AtCapNever(photos, limit) == FALSE
AtCap(photos, limit) == Len(photos) >= limit

\* ------------------------------------------------------------- photo_add
\* one photo message; g = 0 when it has no media_group_id.  The photo is
\* named by the number of the update that carries it.
PhotoAdd(u, g) ==
    /\ nextEv <= Horizon(MaxEvents)
    /\ nextEv' = nextEv + 1
    /\ LET f == nextEv
           d == data[u]
           limit == d.photo_limit
           photos == d.new_photos
           h == [Handler(f, "photo", u) EXCEPT !.photos = photos, !.limit = limit]
       IN  IF limit = 0
           THEN UNCHANGED <<album, timers, tasks, bursts>>
           ELSE IF AtCap(photos, limit)
           THEN /\ tasks' = tasks \cup {[h EXCEPT !.pc = "progress"]}
                /\ UNCHANGED <<album, timers, bursts>>
           ELSE IF g # 0
           THEN /\ album' = PutFile(album, u, g, f, f)
                /\ timers' = (IF HasEntry(album, u, g)
                              THEN Cancelled(timers, EntryOf(album, u, g).task)
                              ELSE timers) \cup {[id |-> f, uid |-> u, gid |-> g]}
                /\ bursts' = BurstAdd(bursts, u, g, f)
                /\ UNCHANGED tasks
           ELSE /\ tasks' = tasks \cup {[h EXCEPT !.pc = "download", !.files = <<f>>]}
                /\ UNCHANGED <<album, timers, bursts>>
    /\ UNCHANGED <<data, fsm, tastings, nextId, lastFail, popped, idleVars>>

\* ------------------------------------------------- _album_timeout_handler
\* asyncio.sleep(ALBUM_TIMEOUT) returns: the deadline of timer tm has passed.
\* The burst of the key ends when the deadline started by its last photo fires.
TimerFire(tm) ==
    /\ tm \in timers
    /\ timers' = timers \ {tm}
    /\ LET u == tm.uid
           g == tm.gid
           open == bursts[u][g].open
       IN  /\ bursts' = IF open # <<>> /\ open[Len(open)] = tm.id
                        THEN BurstClose(bursts, u, g) ELSE bursts
           /\ IF HasEntry(album, u, g)
              THEN LET e == EntryOf(album, u, g)
                   IN  /\ album' = Pop(album, u, g)
                       /\ popped' = [popped EXCEPT ![u][g] = Append(@, e.files)]
                       /\ tasks' = tasks \cup
                            {ProcessEntry(Handler(tm.id, "album", u), e, data[u])}
              ELSE UNCHANGED <<album, popped, tasks>>
    /\ UNCHANGED <<data, fsm, tastings, nextId, nextEv, lastFail, idleVars>>

\* --------------------------------------------- _store_photo_from_file_id
\* get_file and download_file of the next file return (ok) or raise (~ok):
\* photos.append(...) is reached only when both returned
PhotosAfterAny(photos, f, ok) == Append(photos, f)
PhotosAfter(photos, f, ok) == IF ok THEN Append(photos, f) ELSE photos

Downloaded(t, ok) ==
    /\ t \in tasks /\ t.pc = "download"
    /\ LET u == t.uid
           f == Head(t.files)
           photos == PhotosAfter(t.photos, f, ok)
           dat == IF ok THEN [data[u] EXCEPT !.new_photos = photos] ELSE data[u]
           t1 == [t EXCEPT !.photos = photos, !.files = Tail(@),
                           !.saved = @ \/ ok,
                           !.failed = IF ok THEN @ ELSE @ \cup {f},
                           !.must = IF ok /\ IsFinalizer(t) THEN @ \cup {f} ELSE @]
           rest == tasks \ {t}
       IN  IF t1.files # <<>> \/ t1.saved
           THEN /\ tasks' = rest \cup
                     {IF t1.files # <<>> THEN t1 ELSE [t1 EXCEPT !.pc = "progress"]}
                /\ data' = [data EXCEPT ![u] = dat]
                /\ UNCHANGED <<album, timers, bursts, popped, tastings, nextId,
                               fsm, lastFail>>
           ELSE IF IsFinalizer(t)
           THEN FlushThenCommit(t1, dat, t1.keys, rest)
           ELSE /\ tasks' = rest
                /\ UNCHANGED <<data, album, timers, bursts, popped, tastings,
                               nextId, fsm, lastFail>>
    /\ UNCHANGED <<nextEv, idleVars>>

\* ------------------------------------------------- update_photo_progress
\* the old progress message is deleted and the new one sent; then
\* update_data(progress_msg_id, photo_count, photo_limit=limit)
ProgressSent(t) ==
    /\ t \in tasks /\ t.pc = "progress"
    /\ LET u == t.uid
           dat == [data[u] EXCEPT !.progress = 1, !.photo_limit = t.limit]
           rest == tasks \ {t}
       IN  IF IsFinalizer(t)
           THEN FlushThenCommit(t, dat, t.keys, rest)
           ELSE /\ tasks' = rest
                /\ data' = [data EXCEPT ![u] = dat]
                /\ UNCHANGED <<album, timers, bursts, popped, tastings, nextId,
                               fsm, lastFail>>
    /\ UNCHANGED <<nextEv, idleVars>>

\* -------------------------------------------------- clear_photo_progress
\* delete_message of the progress message returned;
\* update_data(progress_msg_id=None), then finalize_after_photos
ClearDone(t) ==
    /\ t \in tasks /\ t.pc = "clear"
    /\ FinalizeSave(t, [data[t.uid] EXCEPT !.progress = 0], tasks \ {t})
    /\ UNCHANGED <<nextEv, idleVars>>

\* ------------------------------------------ flush_user_albums(process=False)
RECURSIVE CancelEach(_, _)
CancelEach(tm, es) ==
    IF es = <<>> THEN tm ELSE CancelEach(Cancelled(tm, Head(es).task), Tail(es))

RECURSIVE Files(_)
Files(es) == IF es = <<>> THEN <<>> ELSE Head(es).files \o Files(Tail(es))

EntriesOf(a, u) == SelectSeq(a, LAMBDA e : e.uid = u)

DropAlbumsNone(u) == UNCHANGED <<album, timers, bursts, popped>>
\* every entry of the user is popped and its timer cancelled; nothing is stored
DropAlbums(u) ==
    /\ album' = SelectSeq(album, LAMBDA e : e.uid # u)
    /\ timers' = CancelEach(timers, EntriesOf(album, u))
    /\ bursts' = [bursts EXCEPT ![u] =
                    [g \in Albums |-> IF HasEntry(album, u, g)
                                      THEN BurstClose(bursts, u, g)[u][g]
                                      ELSE bursts[u][g]]]
    /\ popped' = [popped EXCEPT ![u] =
                    [g \in Albums |-> IF HasEntry(album, u, g)
                                      THEN Append(popped[u][g], EntryOf(album, u, g).files)
                                      ELSE popped[u][g]]]

\* ------------------------------------------------------------ photos_done
DoneAllowedAtStep(st, d) == st = "photos"
DoneAllowed(st, d) == st = "photos" /\ d.new_photos # <<>>

PhotosDone(u) ==
    /\ nextEv <= Horizon(MaxEvents)
    /\ nextEv' = nextEv + 1
    /\ LET d == data[u]
           h == Finalizer(nextEv, "done", u)
       IN  IF ~DoneAllowed(fsm[u], d)
           THEN UNCHANGED <<data, fsm, album, timers, tasks, bursts, popped,
                            tastings, nextId, lastFail>>
           ELSE IF d.progress # 0
           THEN /\ tasks' = tasks \cup {[h EXCEPT !.pc = "clear"]}
                /\ UNCHANGED <<data, fsm, album, timers, bursts, popped,
                               tastings, nextId, lastFail>>
           ELSE FinalizeSave(h, d, tasks)
    /\ UNCHANGED idleVars

\* ------------------------------------------------------------ photos_skip
SkipAllowed(d) == d.new_photos = <<>>

PhotosSkip(u) ==
    /\ nextEv <= Horizon(MaxEvents)
    /\ nextEv' = nextEv + 1
    /\ LET d == data[u]
           d1 == [d EXCEPT !.new_photos = <<>>]
           h == [Finalizer(nextEv, "skip", u) EXCEPT
                    !.must = Range(Prefix(Files(EntriesOf(album, u)), LimitOf(d)))]
       IN  IF ~SkipAllowed(d)
           THEN UNCHANGED <<data, fsm, album, timers, tasks, bursts, popped,
                            tastings, nextId, lastFail>>
           ELSE /\ DropAlbums(u)
                /\ IF d1.progress # 0
                   THEN /\ tasks' = tasks \cup {[h EXCEPT !.pc = "clear"]}
                        /\ data' = [data EXCEPT ![u] = d1]
                        /\ UNCHANGED <<fsm, tastings, nextId, lastFail>>
                   ELSE CommitStep(h, d1, tasks)
    /\ UNCHANGED idleVars

\* ---------------------------------------------------- new_cmd / start_new
NewCmd(u) ==
    /\ nextEv <= Horizon(MaxEvents)
    /\ nextEv' = nextEv + 1
    /\ DropAlbums(u)
    /\ data' = [data EXCEPT ![u] = StartNew(u, NumUsers + nextEv)]
    /\ fsm' = [fsm EXCEPT ![u] = "name"]
    /\ UNCHANGED <<tasks, tastings, nextId, lastFail, idleVars>>

\* -------------------------------------------------------------- the bot
\* every user has completed the survey and prompt_photos has just run
InitPhoto ==
    /\ dialect = "postgresql"
    /\ tastings = {}
    /\ nextId = 1
    /\ sess = [p \in Procs |-> IdleSess]
    /\ issued = [u \in Users |-> 0]
    /\ deleted = FALSE
    /\ calls = 0
    /\ fsm = [u \in Users |-> "photos"]
    /\ data = [u \in Users |-> AtPhotoStep(u)]
    /\ album = <<>> /\ timers = {} /\ tasks = {}
    /\ nextEv = 1
    /\ lastFail = NoFail
    /\ bursts = NoBursts
    /\ popped = NoPopped
    /\ chat = [u \in Users |-> {}]
    /\ vcall = NoCall
    /\ card = NoCard
    /\ horizon = 0

NextPhoto ==
    \/ \E u \in Users, g \in 0..NumAlbums : PhotoAdd(u, g)
    \/ \E tm \in timers : TimerFire(tm)
    \/ \E t \in tasks, ok \in BOOLEAN : Downloaded(t, ok)
    \/ \E t \in tasks : ProgressSent(t)
    \/ \E t \in tasks : ClearDone(t)
    \/ \E u \in Users : PhotosDone(u)
    \/ \E u \in Users : PhotosSkip(u)
    \/ \E u \in Users : NewCmd(u)

SpecPhoto == InitPhoto /\ [][NextPhoto]_vars

\* ======================================================== bot properties
\* (C3) One draft yields at most one persisted record, also when the finalize
\* signal is delivered twice and the two handlers interleave at their awaits:
\* no two records were created from the same draft.
C3_OneRecordPerDraft ==
    \A r1, r2 \in tastings : r1.draft = r2.draft => r1 = r2

\* a finalize was accepted at the photo step for a draft, its create_tasting
\* raised, and a record made from that same draft exists
C3_Witness ==
    /\ lastFail.ev # 0
    /\ lastFail.fsm = "photos"
    /\ lastFail.snap.new_photos # <<>>
    /\ \E r \in tastings : r.draft = lastFail.snap.draft

\* (C4) The draft is not cleared until persistence succeeds: when the create
\* operation of a finalize fails and the store still holds the draft that the
\* finalize was called for, every field value and photo that was in the draft
\* when the finalize was called is in the store afterwards and the
\* conversation is at the photo step.
C4_DraftKeptOnFailure ==
    [][lastFail' # lastFail =>
        LET lf == lastFail'
            u == lf.uid
        IN  (lf.fsm = "photos" /\ lf.snap.draft # 0 /\ data[u].draft = lf.snap.draft)
            => /\ fsm'[u] = "photos"
               /\ data'[u].user_id = lf.snap.user_id
               /\ data'[u].name = lf.snap.name
               /\ data'[u].category = lf.snap.category
               /\ Range(lf.snap.new_photos) \subseteq Range(data'[u].new_photos)]_vars

\* (C7) Finalizing the photo step (done or skip) while an album entry of the
\* user has a pending timer commits the buffered photos before the record is
\* created: every buffered photo the finalize took out of the buffer (within
\* the cap, download not failed) is a photo of the record.
C7_BufferedPhotosCommitted ==
    \A r \in tastings : r.must \subseteq Range(r.photos)

\* (C8) Album debounce: the photos of one (user, batch-id) that each arrive
\* before the deadline started by the previous one has fired leave the buffer
\* in exactly one flush, all of them in arrival order; a photo arriving after
\* that deadline has fired opens a new burst with a flush of its own.
C8_OneFlushPerBurst ==
    \A u \in Users, g \in Albums :
        /\ popped[u][g] = bursts[u][g].closed
        /\ bursts[u][g].open =
              IF HasEntry(album, u, g) THEN EntryOf(album, u, g).files ELSE <<>>

\* every update so far was a photo of one batch-id; a burst of at least two
\* was flushed by its deadline and a later photo was flushed separately
C8_Witness ==
    \E u \in Users, g \in Albums :
        /\ Len(popped[u][g]) = 2
        /\ Len(popped[u][g][1]) >= 2
        /\ Len(popped[u][g][1]) + Len(popped[u][g][2]) = nextEv - 1

\* the handler returned at once: nothing but the update counter moved
Rejected ==
    UNCHANGED <<data, fsm, album, timers, tasks, tastings, nextId, lastFail,
                bursts, popped>>

\* the handler went on to finalize: it waits at an await as a finalizer, or it
\* has already called create_tasting (a record was added or the call raised)
Completing(kind) ==
    \/ \E t \in tasks' \ tasks : t.ev = nextEv /\ t.kind = kind
    \/ tastings' # tastings
    \/ lastFail'.ev = nextEv

\* (C9) At the photo step a done signal completes the step if and only if the
\* draft holds at least one photo, a skip signal if and only if it holds none;
\* a rejected signal changes neither the draft nor the current step.
C9_DoneSkipAcceptance ==
    [][\A u \in Users :
          fsm[u] = "photos" =>
            /\ PhotosDone(u) =>
                 IF data[u].new_photos = <<>> THEN Rejected ELSE Completing("done")
            /\ PhotosSkip(u) =>
                 IF data[u].new_photos # <<>> THEN Rejected ELSE Completing("skip")]_vars

\* a done signal has been rejected at the photo step with an empty draft:
\* one update was handled and the draft, the step and the buffer are as before
C9_Witness ==
    /\ nextEv = 2
    /\ \E u \in Users : fsm[u] = "photos" /\ data[u] = AtPhotoStep(u)
    /\ tasks = {} /\ album = <<>> /\ timers = {}
    /\ tastings = {} /\ lastFail = NoFail

\* (C10) Photo cap: the draft's photo sequence never has more than MaxPhotos
\* entries, whatever mix of single photos and album flushes arrives, and no
\* persisted record has more than MaxPhotos photos.
C10_PhotoCap ==
    /\ \A u \in Users : Len(data[u].new_photos) <= MaxPhotos
    /\ \A r \in tastings : Len(r.photos) <= MaxPhotos

\* the draft is full and a further photo has been turned away
C10_Witness ==
    \E t \in tasks :
        /\ t.kind = "photo" /\ t.pc = "progress" /\ t.files = <<>> /\ ~t.saved
        /\ Len(t.photos) >= t.limit
        /\ Len(data[t.uid].new_photos) = MaxPhotos

\* ================================================================ the flows
\* The two questionnaires.  A step is the FSM state a user is in; the short
\* names stand for NewTasting / InfusionState / EffectsScenarios /
\* RatingSummary states, the q_ names for QuickNote states, "photos" for
\* PhotoFlow.photos and "confirm" for QuickCancel.confirm.
MaxFlowEvents == 2      \* questionnaire updates the bot receives
MaxInitInfusions == 1   \* infusions already appended when the run starts

Blank == 2   \* (message.text or "").strip() is ""
Txt == 1     \* a non-empty text
Texts == {Blank, Txt}
Item == 1    \* a descriptor of a toggle keyboard
Custom == 9  \* a text typed after "other"
Label == 4   \* a typed text that spells the label of the keyboard descriptor
EffTexts == Texts \cup {Label}
\* the value a typed text has as a list element: the labels are strings too
Typed(txt) == IF txt = Label THEN Item ELSE Custom

FullOrder ==
    <<"name", "year", "region", "category", "grams", "temp_c", "tasted_at",
      "gear", "aroma_dry", "aroma_warmed", "seconds", "color", "taste",
      "special", "body", "aftertaste", "effects", "scenarios", "rating",
      "summary", "photos">>
QuickOrder ==
    <<"q_name", "q_type_pick", "q_grams", "q_temp_pick", "q_gear_pick",
      "q_aroma", "q_taste", "q_eff_pick", "q_rating", "q_note", "photos">>
\* the text-entry states entered with "other" from a pick step
QuickBranch(st) ==
    CASE st = "q_type_custom" -> "q_type_pick"
      [] st = "q_gear_custom" -> "q_gear_pick"
      [] st = "q_eff_custom" -> "q_eff_pick"
      [] OTHER -> st
QuickStates == (Range(QuickOrder) \ {"photos"}) \cup
               {"q_type_custom", "q_gear_custom", "q_eff_custom"}
FullStates == Range(FullOrder) \ {"photos"}
Questionnaire == FullStates \cup QuickStates \cup {"photos"}

Pos(order, st) == CHOOSE i \in DOMAIN order : order[i] = st
Past(order, at, st) == Pos(order, at) > Pos(order, st)

\* ------------------------------------------------- drafts a run starts from
\* the message id of the question that was asked last before the run starts;
\* the questions of the run carry the number of the update that asks them
FirstQuestion == 0

\* The draft of a user who went through the full questionnaire up to step at:
\* ans tells whether the optional questions were answered or skipped, k how
\* many infusions were appended, sel whether an item is toggled at the
\* multi-select step the user is at, aw whether "other" was pressed there.
FullDraftAt(u, at, ans, k, sel, aw) ==
    LET past(st) == Past(FullOrder, at, st)
        val(st) == IF past(st) /\ ans THEN 1 ELSE None
        tasted == at \in {"special", "body", "aftertaste"} /\ ans
        n == IF past("aftertaste") THEN k + 1
             ELSE IF past("aroma_warmed") THEN k ELSE 0
        f == [EmptyForm EXCEPT
                !.year = val("year"), !.region = val("region"),
                !.grams = val("grams"), !.temp_c = val("temp_c"),
                !.gear = val("gear"), !.aroma_dry = val("aroma_dry"),
                !.aroma_warmed = val("aroma_warmed"),
                !.effects = IF past("effects") /\ ans THEN <<Item>> ELSE <<>>,
                !.rating = IF past("rating") THEN 7 ELSE None,
                !.summary = val("summary"),
                !.cur_taste_sel = IF tasted \/ (at = "taste" /\ sel)
                                  THEN <<Item>> ELSE <<>>,
                !.cur_taste = IF tasted THEN <<Item>> ELSE <<>>,
                !.awaiting_custom_taste = (at = "taste" /\ aw),
                !.cur_aftertaste_sel = IF at = "aftertaste" /\ sel
                                       THEN <<Item>> ELSE <<>>,
                !.awaiting_custom_after = (at = "aftertaste" /\ aw),
                !.infusions = [i \in 1..n |-> Infusion(i, <<Item>>, <<Item>>)],
                !.infusion_n = n + 1,
                !.live_q_id = FirstQuestion]
    IN  [user_id |-> u,
         name |-> IF past("name") THEN Txt ELSE 0,
         category |-> IF past("category") THEN 1 ELSE 0,
         new_photos |-> <<>>,
         photo_limit |-> IF at = "photos" THEN MaxPhotos ELSE 0,
         progress |-> IF at = "photos" THEN 1 ELSE 0,
         draft |-> u, form |-> f]

\* start_quick_flow: every answer key None, effects and new_photos empty
StartQuick(u, id) ==
    [EmptyData EXCEPT !.user_id = u, !.draft = id, !.form.flow_kind = "quick"]

\* the draft of a user who went through the quick questionnaire up to state at
QuickDraftAt(u, at, ans, sel) ==
    LET main == QuickBranch(at)
        past(st) == Past(QuickOrder, main, st)
        val(st) == IF past(st) /\ ans THEN 1 ELSE None
        d == StartQuick(u, u)
    IN  [d EXCEPT
           !.name = IF past("q_name") THEN Txt ELSE 0,
           !.category = IF past("q_type_pick")
                        THEN (IF ans THEN 1 ELSE Fallback) ELSE 0,
           !.photo_limit = IF at = "photos" THEN MaxPhotos ELSE 0,
           !.progress = IF at = "photos" THEN 1 ELSE 0,
           !.form.grams = val("q_grams"), !.form.temp_c = val("q_temp_pick"),
           !.form.gear = val("q_gear_pick"), !.form.aroma_dry = val("q_aroma"),
           !.form.aroma_warmed = val("q_taste"),
           !.form.effects = IF (past("q_eff_pick") /\ ans) \/
                                (main = "q_eff_pick" /\ sel)
                             THEN <<Item>> ELSE <<>>,
           !.form.rating = IF past("q_rating") THEN 7 ELSE None,
           !.form.summary = val("q_note"),
           !.form.live_q_id = FirstQuestion]

\* ------------------------------------------------------------- bookkeeping
albumVars == <<album, timers, bursts, popped>>
storeVars == <<tastings, nextId, lastFail>>

FlowEvent == nextEv <= Horizon(MaxFlowEvents) /\ nextEv' = nextEv + 1
\* state.update_data(...) / state.clear() leave the user's data as d
StoreLost(u, d) == data' = data
Store(u, d) == data' = [data EXCEPT ![u] = d]
\* state.set_state(st)
Goto(u, st) == fsm' = [fsm EXCEPT ![u] = st]
\* the question of step st is sent with inline buttons: every question but
\* the title of the full questionnaire and the "type it as text" requests,
\* which are asked without a step of their own
HasKeyboard(st) == st \notin {"name", "none"}

\* the handler is suspended in a transport call (answer, edit_text, ...); pc
\* names what it does when the call returns, st the state it will then set
Await(u, pc, st) ==
    tasks' = tasks \cup {[Handler(nextEv, "flow", u) EXCEPT
                             !.pc = pc, !.goto = st, !.kb = HasKeyboard(st)]}
\* the same when the question it is about to send asks for a text
AwaitText(u, pc, st) ==
    tasks' = tasks \cup {[Handler(nextEv, "flow", u) EXCEPT !.pc = pc, !.goto = st]}

\* the handler went through set_state and is suspended inside ask_next, which
\* has read live_q_id from the data d; st is the step whose question it sends
AwaitAsked(u, st, d) ==
    tasks' = tasks \cup {[Handler(nextEv, "flow", u) EXCEPT
                             !.pc = "asked", !.goto = st,
                             !.kb = HasKeyboard(st),
                             !.prev = d.form.live_q_id]}

\* ask_next in the chat: edit_message_reply_markup(prev, None) takes the
\* buttons off the previous question, answer(text, kb) shows message id
Prompts(c, prev, id, kb) == (c \ {prev}) \cup (IF kb THEN {id} ELSE {})

\* what the ask_* function of handler t writes before it calls ask_next:
\* ask_aroma_dry_msg / ask_aroma_dry_call reset the selection of the step
EnteringFresh(d, t) ==
    IF t.goto = "q_eff_pick" THEN [d EXCEPT !.form.effects = <<>>]
    ELSE IF t.pc = "ask" /\ t.goto = "aroma_dry"
    THEN [d EXCEPT !.form.aroma_dry_sel = <<>>] ELSE d
Entering(d, t) ==
    IF t.pc = "ask" /\ t.goto = "aroma_dry"
    THEN [d EXCEPT !.form.aroma_dry_sel = <<>>] ELSE d

\* the rest of ask_next for handler t: the chat, then update_data(live_q_id)
AskNext(t) ==
    LET u == t.uid
        prev == IF t.prev = Unread THEN data[u].form.live_q_id ELSE t.prev
    IN  /\ chat' = [chat EXCEPT ![u] = Prompts(@, prev, t.ev, t.kb)]
        /\ Store(u, [Entering(data[u], t) EXCEPT !.form.live_q_id = t.ev])

\* a callback handler is suspended in close_inline(call); the button is on
\* the question of step at: the live question when the user is at that step
AwaitClose(u, pc, st, at) ==
    tasks' = tasks \cup {[Handler(nextEv, "flow", u) EXCEPT
                             !.pc = pc, !.goto = st,
                             !.clicked = IF fsm[u] = at
                                         THEN data[u].form.live_q_id ELSE None]}

\* close_inline / ack returned: ask_next, then the handler's trailing set_state
AskSent(t) ==
    /\ t \in tasks /\ t.pc = "ask"
    /\ AskNext(t)
    /\ Goto(t.uid, t.goto)
    /\ tasks' = tasks \ {t}
    /\ UNCHANGED <<nextEv, albumVars, storeVars, restVars>>

\* ask_next of a handler that set the state before it (ask_quick_*) or that
\* sets none
Asked(t) ==
    /\ t \in tasks /\ t.pc = "asked"
    /\ AskNext(t)
    /\ tasks' = tasks \ {t}
    /\ UNCHANGED <<fsm, nextEv, albumVars, storeVars, restVars>>

\* ------------------------------------------------- cancel_cmd (/cancel)
\* state.clear(); update_data(numpad_active=False); message.answer(...)
CancelCmd(u) ==
    /\ FlowEvent
    /\ Store(u, ClearData(data[u]))
    /\ Goto(u, "none")
    /\ UNCHANGED <<tasks, albumVars, storeVars, idleVars>>

\* ------------------------------------------------------------ quick_cancel
QuickCancel(u) ==
    /\ FlowEvent
    /\ IF fsm[u] = "none"
       THEN UNCHANGED <<data, fsm, tasks>>
       ELSE /\ Store(u, [data[u] EXCEPT !.form.cancel_return_state = fsm[u]])
            /\ Goto(u, "confirm")
            /\ AwaitAsked(u, "confirm", data[u])
    /\ UNCHANGED <<albumVars, storeVars, idleVars>>

\* -------------------------------------------------------- quick_cancel_yes
\* flush_user_albums(data.get("user_id"), state, process=False); state.clear()
QuickCancelYes(u) ==
    /\ fsm[u] = "confirm"
    /\ FlowEvent
    /\ IF data[u].user_id = 0 THEN UNCHANGED albumVars
       ELSE DropAlbums(data[u].user_id)
    /\ Store(u, ClearData(data[u]))
    /\ Goto(u, "none")
    /\ UNCHANGED <<tasks, storeVars, idleVars>>

\* --------------------------------------------------------- quick_cancel_no
\* return_state = data.get("cancel_return_state"); state.set_state(return_state);
\* the question is asked again when return_state is a QuickNote state
ReturnStateName(d) == "q_name"
ReturnState(d) == d.form.cancel_return_state

QuickCancelNo(u) ==
    /\ fsm[u] = "confirm"
    /\ FlowEvent
    /\ IF ReturnState(data[u]) = "none"
       THEN UNCHANGED fsm
       ELSE Goto(u, ReturnState(data[u]))
    /\ IF ReturnState(data[u]) \in QuickStates
       THEN AwaitAsked(u, ReturnState(data[u]), data[u])
       ELSE UNCHANGED tasks
    /\ UNCHANGED <<data, albumVars, storeVars, idleVars>>

\* ----------------------------------------------------- start_quick_flow
QuickNew(u) ==
    /\ FlowEvent
    /\ DropAlbums(u)
    /\ Store(u, StartQuick(u, NumUsers + nextEv))
    /\ Goto(u, "q_name")
    /\ AwaitAsked(u, "q_name", StartQuick(u, NumUsers + nextEv))
    /\ UNCHANGED <<storeVars, idleVars>>

\* ------------------------------------------------------------ typed numbers
\* the texts a user types at a numeric step
Raw == {"abc", "7", "2020", "skip"}
\* is_skip_input: the text is "пропустить" or "/skip"
IsSkipInput(raw) == raw = "skip"
\* str.isdigit() / int(text) succeeds
IsDigit(raw) == raw \in {"7", "85", "2020"}
IntOf(raw) == IF raw = "7" THEN 7 ELSE IF raw = "85" THEN 85 ELSE 2020
YEAR_MIN == 1900
YearMax == 2027
\* parse_int: int(text) fails or the value is out of range -> ValueError
ParseIntOk(raw, lo, hi) == IsDigit(raw) /\ IntOf(raw) >= lo /\ IntOf(raw) <= hi
\* parse_grams_value: parse_float(raw, 0.1, 50.0)
ParseGramsOk(raw) == ParseIntOk(raw, 1, 50)
\* max(0, min(10, rating))
Clamp(v) == IF v < 0 THEN 0 ELSE IF v > 10 THEN 10 ELSE v

\* ------------------------------------------------ quick questionnaire steps
\* a QuickNote text handler: empty text -> message.answer, then ask again;
\* otherwise update_data, then ask_quick_<next> (set_state, then ask_next)
QuickTextIn(u, at, txt, d, next) ==
    /\ fsm[u] = at
    /\ FlowEvent
    /\ IF txt = Blank
       THEN Await(u, "ask", at) /\ UNCHANGED <<data, fsm>>
       ELSE Store(u, d) /\ Goto(u, next) /\ AwaitAsked(u, next, d)
    /\ UNCHANGED <<albumVars, storeVars, idleVars>>

\* a QuickNote button handler: update_data, close_inline, ask_quick_<next>
QuickPick(u, at, d, next) ==
    /\ fsm[u] = at
    /\ FlowEvent
    /\ Store(u, d)
    /\ Await(u, "ask", next)
    /\ UNCHANGED <<fsm, albumVars, storeVars, idleVars>>

\* "other" at a pick step: ask_quick_<x>_custom sets the state at once
QuickOther(u, at, next) ==
    /\ fsm[u] = at
    /\ FlowEvent
    /\ Goto(u, next)
    /\ AwaitAsked(u, next, data[u])
    /\ UNCHANGED <<data, albumVars, storeVars, idleVars>>

QuickNameIn(u, txt) ==
    QuickTextIn(u, "q_name", txt, [data[u] EXCEPT !.name = txt], "q_type_pick")

QuickTypePick(u, code) ==
    IF code = "other" THEN QuickOther(u, "q_type_pick", "q_type_custom")
    ELSE QuickPick(u, "q_type_pick", [data[u] EXCEPT !.category = 1], "q_grams")

QuickTypeCustomIn(u, txt) ==
    QuickTextIn(u, "q_type_custom", txt, [data[u] EXCEPT !.category = Custom],
                "q_grams")

QuickGramsIn(u, raw) ==
    QuickTextIn(u, "q_grams", IF ParseGramsOk(raw) THEN Txt ELSE Blank,
                [data[u] EXCEPT !.form.grams = IntOf(raw)], "q_temp_pick")

\* the ranges of the temperature keyboard, (lo, hi)
QUICK_TEMPS == <<<<75, 80>>, <<80, 85>>, <<85, 90>>, <<90, 95>>, <<95, 100>>>>
TempButtonLow(rg) == rg[1]
\* q_temp_kb: callback_data=f"q:temp:{hi}"
TempButton(rg) == rg[2]
TempButtons == {TempButton(QUICK_TEMPS[i]) : i \in DOMAIN QUICK_TEMPS}

\* quick_temp_pick: temp_val = int(raw_val); update_data(temp_c=temp_val)
QuickTempPick(u, val) ==
    QuickPick(u, "q_temp_pick", [data[u] EXCEPT !.form.temp_c = val], "q_gear_pick")

QuickGearPick(u, code) ==
    IF code = "other" THEN QuickOther(u, "q_gear_pick", "q_gear_custom")
    ELSE QuickPick(u, "q_gear_pick", [data[u] EXCEPT !.form.gear = 1], "q_aroma")

QuickGearCustomIn(u, txt) ==
    QuickTextIn(u, "q_gear_custom", txt, [data[u] EXCEPT !.form.gear = Custom],
                "q_aroma")

QuickAromaIn(u, txt) ==
    QuickTextIn(u, "q_aroma", txt, [data[u] EXCEPT !.form.aroma_dry = txt], "q_taste")

QuickTasteIn(u, txt) ==
    QuickTextIn(u, "q_taste", txt, [data[u] EXCEPT !.form.aroma_warmed = txt],
                "q_eff_pick")

\* list.remove(x): the first occurrence of x goes, the rest stays in order
RECURSIVE RemoveFirst(_, _)
RemoveFirst(sel, x) ==
    IF sel = <<>> THEN <<>>
    ELSE IF Head(sel) = x THEN Tail(sel)
    ELSE <<Head(sel)>> \o RemoveFirst(Tail(sel), x)

\* if label in selected: selected.remove(label) else: selected.append(label)
Toggle(sel, x) ==
    IF x \in Range(sel) THEN RemoveFirst(sel, x) ELSE Append(sel, x)

QuickEffToggle(u, code) ==
    /\ fsm[u] = "q_eff_pick"
    /\ FlowEvent
    /\ CASE code = "done" ->
              Await(u, "ask", "q_rating") /\ UNCHANGED <<data, fsm>>
         [] code = "other" ->
              /\ Goto(u, "q_eff_custom")
              /\ AwaitAsked(u, "q_eff_custom", data[u])
              /\ UNCHANGED data
         [] OTHER ->
              /\ Store(u, [data[u] EXCEPT !.form.effects = Toggle(@, Item)])
              /\ UNCHANGED <<fsm, tasks>>
    /\ UNCHANGED <<albumVars, storeVars, idleVars>>

QuickEffCustomIn(u, txt) ==
    QuickTextIn(u, "q_eff_custom", txt,
                [data[u] EXCEPT !.form.effects = Append(@, Typed(txt))],
                "q_eff_pick")

QuickRatingPick(u, val) ==
    QuickPick(u, "q_rating", [data[u] EXCEPT !.form.rating = Clamp(val)], "q_note")

\* ----------------------------------------------------------- prompt_photos
\* flush_user_albums(uid, process=False); update_data(new_photos=[],
\* photo_limit=MAX_PHOTOS); clear_photo_progress; then the prompt is sent
PhotosPrompted(d) ==
    [d EXCEPT !.new_photos = <<>>, !.photo_limit = MaxPhotos, !.progress = 0]

\* close_inline (which has taken the buttons off the clicked message) or ack
\* returned in a handler that goes on to prompt_photos
PromptPhotos(t) ==
    /\ t \in tasks /\ t.pc = "prompt"
    /\ chat' = [chat EXCEPT ![t.uid] = @ \ {t.clicked}]
    /\ DropAlbums(t.uid)
    /\ Store(t.uid, PhotosPrompted(data[t.uid]))
    /\ tasks' = (tasks \ {t}) \cup {[t EXCEPT !.pc = "photo_prompt"]}
    /\ UNCHANGED <<fsm, nextEv, storeVars, restVars>>

\* the prompt was sent: update_data(progress_msg_id=...); set_state(photos)
PhotoPromptSent(t) ==
    /\ t \in tasks /\ t.pc = "photo_prompt"
    /\ Store(t.uid, [data[t.uid] EXCEPT !.progress = 1])
    /\ Goto(t.uid, "photos")
    /\ tasks' = tasks \ {t}
    /\ UNCHANGED <<nextEv, albumVars, storeVars, idleVars>>

\* quick_note_in: update_data(summary=text or None); prompt_photos
QuickNoteIn(u, txt) ==
    /\ fsm[u] = "q_note"
    /\ FlowEvent
    /\ DropAlbums(u)
    /\ Store(u, PhotosPrompted([data[u] EXCEPT
                   !.form.summary = IF txt = Blank THEN None ELSE txt]))
    /\ Await(u, "photo_prompt", "photos")
    /\ UNCHANGED <<fsm, storeVars, idleVars>>

\* summary_in: update_data(summary=text); ack when there is a text;
\* prompt_photos
SummaryIn(u, txt) ==
    /\ fsm[u] = "summary"
    /\ FlowEvent
    /\ IF txt = Blank
       THEN /\ DropAlbums(u)
            /\ Store(u, PhotosPrompted([data[u] EXCEPT !.form.summary = txt]))
            /\ Await(u, "photo_prompt", "photos")
       ELSE /\ Store(u, [data[u] EXCEPT !.form.summary = txt])
            /\ Await(u, "prompt", "photos")
            /\ UNCHANGED albumVars
    /\ UNCHANGED <<fsm, storeVars, idleVars>>

\* summary_skip: registered for the "skip:summary" callback, whatever the
\* state; update_data(summary=None); close_inline; prompt_photos
SummarySkip(u) ==
    /\ FlowEvent
    /\ Store(u, [data[u] EXCEPT !.form.summary = None])
    /\ AwaitClose(u, "prompt", "photos", "summary")
    /\ UNCHANGED <<fsm, albumVars, storeVars, idleVars>>

\* -------------------------------------------------------------- quick_skip
SkipSteps == {"type", "grams", "temp", "gear", "aroma", "taste", "eff", "note"}

\* the value quick_skip writes for the step named in the button
Skipped(d, step) ==
    CASE step = "type" -> [d EXCEPT !.category = Fallback]
      [] step = "grams" -> [d EXCEPT !.form.grams = None]
      [] step = "temp" -> [d EXCEPT !.form.temp_c = None]
      [] step = "gear" -> [d EXCEPT !.form.gear = None]
      [] step = "aroma" -> [d EXCEPT !.form.aroma_dry = None]
      [] step = "taste" -> [d EXCEPT !.form.aroma_warmed = None]
      [] step = "eff" -> [d EXCEPT !.form.effects = <<>>]
      [] step = "note" -> [d EXCEPT !.form.summary = None]

\* the QuickNote state whose keyboard carries the button q:skip:<step>
SkipState(step) ==
    CASE step = "type" -> "q_type_pick"
      [] step = "grams" -> "q_grams"
      [] step = "temp" -> "q_temp_pick"
      [] step = "gear" -> "q_gear_pick"
      [] step = "aroma" -> "q_aroma"
      [] step = "taste" -> "q_taste"
      [] step = "eff" -> "q_eff_pick"
      [] step = "note" -> "q_note"

\* the state the ask_quick_* after the skip sets
AfterSkip(step) ==
    CASE step = "type" -> "q_grams"
      [] step = "grams" -> "q_temp_pick"
      [] step = "temp" -> "q_gear_pick"
      [] step = "gear" -> "q_aroma"
      [] step = "aroma" -> "q_taste"
      [] step = "taste" -> "q_eff_pick"
      [] step = "eff" -> "q_rating"
      [] step = "note" -> "photos"

\* registered for every "q:skip:<step>" callback, whatever the state
QuickSkip(u, step) ==
    /\ FlowEvent
    /\ Store(u, Skipped(data[u], step))
    /\ IF step = "note"
       THEN AwaitClose(u, "prompt", "photos", "q_note")
       ELSE Await(u, "ask", AfterSkip(step))
    /\ UNCHANGED <<fsm, albumVars, storeVars, idleVars>>

\* -------------------------------------------------------------- quick_back
\* the state quick_back asks again from current_state; no branch: no change
BackTarget(st) ==
    CASE st = "q_grams" -> "q_type_pick"
      [] st = "q_temp_pick" -> "q_grams"
      [] st = "q_gear_pick" -> "q_temp_pick"
      [] st = "q_type_custom" -> "q_type_pick"
      [] st = "q_gear_custom" -> "q_gear_pick"
      [] st = "q_aroma" -> "q_gear_pick"
      [] st = "q_taste" -> "q_aroma"
      [] st = "q_eff_pick" -> "q_taste"
      [] st = "q_eff_custom" -> "q_eff_pick"
      [] st = "q_rating" -> "q_eff_pick"
      [] st = "q_note" -> "q_rating"
      [] OTHER -> st

QuickBack(u) ==
    /\ FlowEvent
    /\ Goto(u, BackTarget(fsm[u]))
    /\ IF BackTarget(fsm[u]) # fsm[u]
       THEN AwaitAsked(u, BackTarget(fsm[u]), data[u])
       ELSE UNCHANGED tasks
    /\ UNCHANGED <<data, albumVars, storeVars, idleVars>>

\* ------------------------------------------------- full questionnaire steps
\* name_in: title = (message.text or "").strip(); update_data(name=title);
\* ack; ask_year_prompt (ask_next, then set_state(year))
NameIn(u, txt) ==
    /\ fsm[u] = "name"
    /\ FlowEvent
    /\ Store(u, [data[u] EXCEPT !.name = txt])
    /\ Await(u, "ask", "year")
    /\ UNCHANGED <<fsm, albumVars, storeVars, idleVars>>

\* year_in: skip word -> year None; parse error -> message and the year prompt
\* again; a year in range -> stored; then ask_region_prompt
YearIn(u, raw) ==
    /\ fsm[u] = "year"
    /\ FlowEvent
    /\ IF IsSkipInput(raw)
       THEN Store(u, [data[u] EXCEPT !.form.year = None]) /\ Await(u, "ask", "region")
       ELSE IF ~ParseIntOk(raw, YEAR_MIN, YearMax)
       THEN UNCHANGED data /\ Await(u, "ask", "year")
       ELSE /\ Store(u, [data[u] EXCEPT !.form.year = IntOf(raw)])
            /\ Await(u, "ask", "region")
    /\ UNCHANGED <<fsm, albumVars, storeVars, idleVars>>

\* region_in: update_data(region=region if region else None)
RegionIn(u, txt) ==
    /\ fsm[u] = "region"
    /\ FlowEvent
    /\ Store(u, [data[u] EXCEPT !.form.region = IF txt = Blank THEN None ELSE txt])
    /\ Await(u, "ask", "category")
    /\ UNCHANGED <<fsm, albumVars, storeVars, idleVars>>

\* region_skip: registered for the "skip:region" callback, whatever the state
RegionSkip(u) ==
    /\ FlowEvent
    /\ Store(u, [data[u] EXCEPT !.form.region = None])
    /\ Await(u, "ask", "category")
    /\ UNCHANGED <<fsm, albumVars, storeVars, idleVars>>

ToggleCodes == {"done", "other", "item"}

\* taste_toggle: registered for every "taste:" callback
TasteToggle(u, code) ==
    /\ FlowEvent
    /\ LET d == data[u]
       IN  CASE code = "done" ->
                  /\ Store(u, [d EXCEPT !.form.cur_taste = d.form.cur_taste_sel,
                                        !.form.awaiting_custom_taste = FALSE])
                  /\ Await(u, "ask", "special")
             [] code = "other" ->
                  /\ Store(u, [d EXCEPT !.form.awaiting_custom_taste = TRUE])
                  /\ Await(u, "asked", "none")
             [] OTHER ->
                  /\ Store(u, [d EXCEPT !.form.cur_taste_sel = Toggle(@, Item)])
                  /\ UNCHANGED tasks
    /\ UNCHANGED <<fsm, albumVars, storeVars, idleVars>>

\* the value taste_custom stores: the typed text alone, in both of its branches
TasteText(d, txt) == IF txt = Blank THEN <<>> ELSE <<Custom>>

\* taste_custom: awaiting_custom_taste or not, cur_taste = text or None, the
\* flag is reset and the infusion goes on to the special notes
TasteCustom(u, txt) ==
    /\ fsm[u] = "taste"
    /\ FlowEvent
    /\ Store(u, [data[u] EXCEPT !.form.cur_taste = TasteText(data[u], txt),
                                !.form.awaiting_custom_taste = FALSE])
    /\ Await(u, "ask", "special")
    /\ UNCHANGED <<fsm, albumVars, storeVars, idleVars>>

\* aftertaste_toggle: registered for every "aft:" callback
AftertasteToggle(u, code) ==
    /\ FlowEvent
    /\ LET d == data[u]
       IN  CASE code = "done" ->
                  /\ Store(u, [d EXCEPT
                                 !.form.cur_aftertaste = d.form.cur_aftertaste_sel,
                                 !.form.awaiting_custom_after = FALSE])
                  /\ Await(u, "append", "none")
             [] code = "other" ->
                  /\ Store(u, [d EXCEPT !.form.awaiting_custom_after = TRUE])
                  /\ Await(u, "asked", "none")
             [] OTHER ->
                  /\ Store(u, [d EXCEPT !.form.cur_aftertaste_sel = Toggle(@, Item)])
                  /\ UNCHANGED tasks
    /\ UNCHANGED <<fsm, albumVars, storeVars, idleVars>>

\* aftertaste_custom: text is taken only after "other" and only when not empty
AftertasteCustom(u, txt) ==
    /\ fsm[u] = "aftertaste"
    /\ FlowEvent
    /\ IF ~data[u].form.awaiting_custom_after \/ txt = Blank
       THEN UNCHANGED <<data, tasks>>
       ELSE /\ Store(u, [data[u] EXCEPT !.form.cur_aftertaste = <<Custom>>,
                                        !.form.awaiting_custom_after = FALSE])
            /\ Await(u, "append", "none")
    /\ UNCHANGED <<fsm, albumVars, storeVars, idleVars>>

\* n = data.get("infusion_n", 1)
InfusionNOne(d) == 1
InfusionN(d) == IF d.form.infusion_n = None THEN 1 ELSE d.form.infusion_n

\* append_current_infusion_and_prompt, entered when close_inline / ack returned;
\* it ends in ask_next of the "one more or finish" question
AppendInfusion(t) ==
    /\ t \in tasks /\ t.pc = "append"
    /\ LET d == data[t.uid]
           n == InfusionN(d)
           inf == Infusion(n, d.form.cur_taste, d.form.cur_aftertaste)
       IN  Store(t.uid, [d EXCEPT !.form.infusions = Append(@, inf),
                                  !.form.infusion_n = n + 1,
                                  !.form.cur_taste = <<>>,
                                  !.form.cur_aftertaste = <<>>,
                                  !.form.cur_taste_sel = <<>>,
                                  !.form.cur_aftertaste_sel = <<>>,
                                  !.form.awaiting_custom_taste = FALSE,
                                  !.form.awaiting_custom_after = FALSE])
    /\ tasks' = (tasks \ {t}) \cup
                   {[t EXCEPT !.pc = "asked", !.kb = TRUE,
                              !.prev = data[t.uid].form.live_q_id]}
    /\ UNCHANGED <<fsm, nextEv, albumVars, storeVars, idleVars>>

\* more_infusions: close_inline, prompt_infusion_seconds, set_state(seconds)
MoreInfusions(u) ==
    /\ FlowEvent
    /\ Await(u, "ask", "seconds")
    /\ UNCHANGED <<data, fsm, albumVars, storeVars, idleVars>>

\* finish_infusions: close_inline, ask_effects_prompt, set_state(effects)
FinishInfusions(u) ==
    /\ FlowEvent
    /\ Await(u, "ask", "effects")
    /\ UNCHANGED <<data, fsm, albumVars, storeVars, idleVars>>

\* rating_in: int(txt) if txt.isdigit() else 0, clamped to 0..10, stored
RatingIn(u, raw) ==
    /\ fsm[u] = "rating"
    /\ FlowEvent
    /\ Store(u, [data[u] EXCEPT !.form.rating =
                     Clamp(IF IsDigit(raw) THEN IntOf(raw) ELSE 0)])
    /\ Await(u, "ask", "summary")
    /\ UNCHANGED <<fsm, albumVars, storeVars, idleVars>>

\* ------------------------------------- full questionnaire, the other steps
\* cat_pick: registered for every "cat:" callback.  "other": close_inline,
\* the text request, update_data(awaiting_custom_cat=True)
CatPick(u, code) ==
    /\ FlowEvent
    /\ IF code = "other"
       THEN Await(u, "asked", "none") /\ UNCHANGED data
       ELSE Store(u, [data[u] EXCEPT !.category = 1]) /\ Await(u, "ask", "grams")
    /\ UNCHANGED <<fsm, albumVars, storeVars, idleVars>>

\* grams_in: skip word -> skip_grams_value; parse error -> message and the
\* grams prompt again; else update_data(grams=value), ask_temp_prompt
GramsIn(u, raw) ==
    /\ fsm[u] = "grams"
    /\ FlowEvent
    /\ IF IsSkipInput(raw)
       THEN Store(u, [data[u] EXCEPT !.form.grams = None]) /\ Await(u, "ask", "temp_c")
       ELSE IF ~ParseGramsOk(raw)
       THEN UNCHANGED data /\ Await(u, "ask", "grams")
       ELSE /\ Store(u, [data[u] EXCEPT !.form.grams = IntOf(raw)])
            /\ Await(u, "ask", "temp_c")
    /\ UNCHANGED <<fsm, albumVars, storeVars, idleVars>>

\* skip_grams_callback: registered with StateFilter(NewTasting.grams)
SkipGramsCallback(u) ==
    /\ fsm[u] = "grams"
    /\ FlowEvent
    /\ Store(u, [data[u] EXCEPT !.form.grams = None])
    /\ Await(u, "ask", "temp_c")
    /\ UNCHANGED <<fsm, albumVars, storeVars, idleVars>>

\* the texts a user types at the temperature step
TempRaw == {"abc", "7", "85", "skip"}
TEMP_MIN == 40
TEMP_MAX == 100

\* temp_in: as grams_in, with parse_temp_value; then ask_tasted_at_prompt
TempIn(u, raw) ==
    /\ fsm[u] = "temp_c"
    /\ FlowEvent
    /\ IF IsSkipInput(raw)
       THEN /\ Store(u, [data[u] EXCEPT !.form.temp_c = None])
            /\ Await(u, "ask", "tasted_at")
       ELSE IF ~ParseIntOk(raw, TEMP_MIN, TEMP_MAX)
       THEN UNCHANGED data /\ Await(u, "ask", "temp_c")
       ELSE /\ Store(u, [data[u] EXCEPT !.form.temp_c = IntOf(raw)])
            /\ Await(u, "ask", "tasted_at")
    /\ UNCHANGED <<fsm, albumVars, storeVars, idleVars>>

\* skip_temp_callback: registered with StateFilter(NewTasting.temp_c)
SkipTempCallback(u) ==
    /\ fsm[u] = "temp_c"
    /\ FlowEvent
    /\ Store(u, [data[u] EXCEPT !.form.temp_c = None])
    /\ Await(u, "ask", "tasted_at")
    /\ UNCHANGED <<fsm, albumVars, storeVars, idleVars>>

\* a handler that writes only keys the draft of the model does not hold
\* (tasted_at, cur_seconds, cur_special) and goes on to the question of next
Passing(u, next) ==
    /\ FlowEvent
    /\ Await(u, "ask", next)
    /\ UNCHANGED <<data, fsm, albumVars, storeVars, idleVars>>

\* time_now / tasted_at_skip: registered for their callback data alone
TimeNow(u) == Passing(u, "gear")
TastedAtSkip(u) == Passing(u, "gear")
\* tasted_at_in
TastedAtIn(u) == fsm[u] = "tasted_at" /\ Passing(u, "gear")

\* gear_skip: registered for "skip:gear"; gear None; ask_aroma_dry_call
GearSkip(u) ==
    /\ FlowEvent
    /\ Store(u, [data[u] EXCEPT !.form.gear = None])
    /\ Await(u, "ask", "aroma_dry")
    /\ UNCHANGED <<fsm, albumVars, storeVars, idleVars>>

\* gear_in: update_data(gear=text_val); ack; ask_aroma_dry_msg
GearIn(u, txt) ==
    /\ fsm[u] = "gear"
    /\ FlowEvent
    /\ Store(u, [data[u] EXCEPT !.form.gear = txt])
    /\ Await(u, "ask", "aroma_dry")
    /\ UNCHANGED <<fsm, albumVars, storeVars, idleVars>>

\* ", ".join(selected) if selected else None
Joined(sel) == IF sel = <<>> THEN None ELSE Txt

\* aroma_dry_toggle: registered for every "ad:" callback
AromaDryToggle(u, code) ==
    /\ FlowEvent
    /\ LET d == data[u]
       IN  CASE code = "done" ->
                  /\ Store(u, [d EXCEPT !.form.aroma_dry = Joined(d.form.aroma_dry_sel)])
                  /\ Await(u, "ask", "aroma_warmed")
             [] code = "other" ->
                  Await(u, "asked", "none") /\ UNCHANGED data
             [] OTHER ->
                  /\ Store(u, [d EXCEPT !.form.aroma_dry_sel = Toggle(@, Item)])
                  /\ UNCHANGED tasks
    /\ UNCHANGED <<fsm, albumVars, storeVars, idleVars>>

\* aroma_warmed_toggle: registered for every "aw:" callback; done goes on to
\* start_infusion_block_call
AromaWarmedToggle(u, code) ==
    /\ FlowEvent
    /\ LET d == data[u]
       IN  CASE code = "done" ->
                  /\ Store(u, [d EXCEPT
                                 !.form.aroma_warmed = Joined(d.form.aroma_warmed_sel)])
                  /\ Await(u, "ask", "seconds")
             [] code = "other" ->
                  Await(u, "asked", "none") /\ UNCHANGED data
             [] OTHER ->
                  /\ Store(u, [d EXCEPT !.form.aroma_warmed_sel = Toggle(@, Item)])
                  /\ UNCHANGED tasks
    /\ UNCHANGED <<fsm, albumVars, storeVars, idleVars>>

\* inf_seconds / inf_seconds_skip (StateFilter(InfusionState.seconds)):
\* cur_seconds, then proceed_to_infusion_color
InfSeconds(u) == fsm[u] = "seconds" /\ Passing(u, "color")
InfSecondsSkip(u) == fsm[u] = "seconds" /\ Passing(u, "color")

\* color_skip (registered for "skip:color") / inf_color: cur_color, then
\* update_data(cur_taste_sel=[]) and the taste question
ColorSkip(u) ==
    /\ FlowEvent
    /\ Store(u, [data[u] EXCEPT !.form.cur_taste_sel = <<>>])
    /\ Await(u, "ask", "taste")
    /\ UNCHANGED <<fsm, albumVars, storeVars, idleVars>>

InfColor(u) == fsm[u] = "color" /\ ColorSkip(u)

\* special_skip (registered for "skip:special") / inf_special
SpecialSkip(u) == Passing(u, "body")
InfSpecial(u) == fsm[u] = "special" /\ Passing(u, "body")

\* inf_body_pick: registered for every "body:" callback.  "other":
\* close_inline, set_state(body), the text request; a value: cur_body,
\* update_data(cur_aftertaste_sel=[]), the aftertaste question
InfBodyPick(u, code) ==
    /\ FlowEvent
    /\ IF code = "other"
       THEN AwaitText(u, "ask", "body") /\ UNCHANGED data
       ELSE /\ Store(u, [data[u] EXCEPT !.form.cur_aftertaste_sel = <<>>])
            /\ Await(u, "ask", "aftertaste")
    /\ UNCHANGED <<fsm, albumVars, storeVars, idleVars>>

\* eff_toggle_or_done: registered for every "eff:" callback
EffToggleOrDone(u, code) ==
    /\ FlowEvent
    /\ CASE code = "done" -> Await(u, "ask", "scenarios") /\ UNCHANGED data
         [] code = "other" -> Await(u, "asked", "none") /\ UNCHANGED data
         [] OTHER ->
              /\ Store(u, [data[u] EXCEPT !.form.effects = Toggle(@, Item)])
              /\ UNCHANGED tasks
    /\ UNCHANGED <<fsm, albumVars, storeVars, idleVars>>

\* scn_toggle_or_done: registered for every "scn:" callback; an item changes
\* scenarios, which the draft of the model does not hold
ScnToggleOrDone(u, code) ==
    /\ FlowEvent
    /\ CASE code = "done" -> Await(u, "ask", "rating")
         [] code = "other" -> Await(u, "asked", "none")
         [] OTHER -> UNCHANGED tasks
    /\ UNCHANGED <<data, fsm, albumVars, storeVars, idleVars>>

\* rate_pick: registered for every "rate:" callback; update_data(rating=int(val))
RatePick(u, val) ==
    /\ FlowEvent
    /\ Store(u, [data[u] EXCEPT !.form.rating = val])
    /\ Await(u, "ask", "summary")
    /\ UNCHANGED <<fsm, albumVars, storeVars, idleVars>>

\* ---------------------------------------------------------------- the flows
\* one user is somewhere in one of the questionnaires, the others are idle; at
\* the photo step an album photo may be waiting for its timer.  The question
\* of the step is in the chat; at the photo step the last question was
\* skipped by its button, so the photo prompt is the only one with buttons
InitFlow ==
    /\ dialect = "postgresql"
    /\ tastings = {}
    /\ nextId = 1
    /\ sess = [p \in Procs |-> IdleSess]
    /\ issued = [u \in Users |-> 0]
    /\ deleted = FALSE
    /\ calls = 0
    /\ tasks = {}
    /\ nextEv = 1
    /\ lastFail = NoFail
    /\ popped = NoPopped
    /\ vcall = NoCall
    /\ card = NoCard
    /\ horizon = 0
    /\ \E u0 \in Users, ans \in BOOLEAN, sel \in BOOLEAN, aw \in BOOLEAN,
          k \in 0..MaxInitInfusions, pending \in BOOLEAN :
         \E at \in Questionnaire :
           \E quick \in (IF at = "photos" THEN BOOLEAN ELSE {at \in QuickStates}) :
             /\ fsm = [u \in Users |-> IF u = u0 THEN at ELSE "none"]
             /\ chat = [u \in Users |->
                          IF u = u0 /\ at # "photos" /\ HasKeyboard(at)
                          THEN {FirstQuestion} ELSE {}]
             /\ data = [u \in Users |->
                          IF u # u0 THEN EmptyData
                          ELSE IF quick THEN QuickDraftAt(u, at, ans, sel)
                          ELSE FullDraftAt(u, at, ans, k, sel, aw)]
             /\ IF pending /\ at = "photos"
                THEN /\ album = <<[uid |-> u0, gid |-> 1, files |-> <<0>>, task |-> 0]>>
                     /\ timers = {[id |-> 0, uid |-> u0, gid |-> 1]}
                     /\ bursts = BurstAdd(NoBursts, u0, 1, 0)
                ELSE album = <<>> /\ timers = {} /\ bursts = NoBursts

NextFlow ==
    \/ \E u \in Users : NewCmd(u)
    \/ \E u \in Users : QuickNew(u)
    \/ \E u \in Users : CancelCmd(u)
    \/ \E u \in Users : QuickCancel(u)
    \/ \E u \in Users : QuickCancelYes(u)
    \/ \E u \in Users : QuickCancelNo(u)
    \/ \E u \in Users : QuickBack(u)
    \/ \E u \in Users, step \in SkipSteps : QuickSkip(u, step)
    \/ \E u \in Users, txt \in Texts : QuickNameIn(u, txt)
    \/ \E u \in Users, code \in {"item", "other"} : QuickTypePick(u, code)
    \/ \E u \in Users, txt \in Texts : QuickTypeCustomIn(u, txt)
    \/ \E u \in Users, raw \in Raw : QuickGramsIn(u, raw)
    \/ \E u \in Users, val \in TempButtons : QuickTempPick(u, val)
    \/ \E u \in Users, code \in {"item", "other"} : QuickGearPick(u, code)
    \/ \E u \in Users, txt \in Texts : QuickGearCustomIn(u, txt)
    \/ \E u \in Users, txt \in Texts : QuickAromaIn(u, txt)
    \/ \E u \in Users, txt \in Texts : QuickTasteIn(u, txt)
    \/ \E u \in Users, code \in ToggleCodes : QuickEffToggle(u, code)
    \/ \E u \in Users, txt \in EffTexts : QuickEffCustomIn(u, txt)
    \/ \E u \in Users : QuickRatingPick(u, 7)
    \/ \E u \in Users, txt \in Texts : QuickNoteIn(u, txt)
    \/ \E u \in Users, txt \in Texts : NameIn(u, txt)
    \/ \E u \in Users, raw \in Raw : YearIn(u, raw)
    \/ \E u \in Users, txt \in Texts : RegionIn(u, txt)
    \/ \E u \in Users : RegionSkip(u)
    \/ \E u \in Users, code \in ToggleCodes : TasteToggle(u, code)
    \/ \E u \in Users, txt \in Texts : TasteCustom(u, txt)
    \/ \E u \in Users, code \in ToggleCodes : AftertasteToggle(u, code)
    \/ \E u \in Users, txt \in Texts : AftertasteCustom(u, txt)
    \/ \E u \in Users : MoreInfusions(u)
    \/ \E u \in Users : FinishInfusions(u)
    \/ \E u \in Users, raw \in Raw : RatingIn(u, raw)
    \/ \E u \in Users, txt \in Texts : SummaryIn(u, txt)
    \/ \E u \in Users : SummarySkip(u)
    \/ \E u \in Users : PhotosSkip(u)
    \/ \E t \in tasks : AskSent(t)
    \/ \E t \in tasks : Asked(t)
    \/ \E t \in tasks : AppendInfusion(t)
    \/ \E t \in tasks : PromptPhotos(t)
    \/ \E t \in tasks : PhotoPromptSent(t)
    \/ \E t \in tasks : ClearDone(t)
    \/ \E tm \in timers : TimerFire(tm)
    \/ \E t \in tasks, ok \in BOOLEAN : Downloaded(t, ok)
    \/ \E t \in tasks : ProgressSent(t)

SpecFlow == InitFlow /\ [][NextFlow]_vars

\* ------------------------------------------- one questionnaire, end to end
MaxRunEvents == 24     \* updates of a run through the full questionnaire
MaxQuickEvents == 14   \* updates of a run through the quick questionnaire

\* the user reads the question before answering: no handler is suspended
Quiet == tasks = {} /\ timers = {}
At(u, st) == Quiet /\ fsm[u] = st
\* the run has not begun; its length tells which questionnaire it goes through
RunStart(len) == Quiet /\ nextEv = 1 /\ horizon = len
\* the "one more or finish" question of the first infusion is on the screen
LoopAsked(u) == At(u, "aftertaste") /\ Len(data[u].form.infusions) = 1
LoopOpen(u) == At(u, "aftertaste") /\ data[u].form.infusions = <<>>

\* nobody is in a questionnaire; one user has rows from earlier runs, whose
\* numbers may have gaps after deletions, and every other user has one row
InitRun ==
    /\ dialect = "postgresql"
    /\ sess = [p \in Procs |-> IdleSess]
    /\ issued = [u \in Users |-> 0]
    /\ deleted = FALSE
    /\ calls = 0
    /\ fsm = [u \in Users |-> "none"]
    /\ data = [u \in Users |-> EmptyData]
    /\ chat = [u \in Users |-> {}]
    /\ album = <<>> /\ timers = {} /\ tasks = {}
    /\ bursts = NoBursts
    /\ popped = NoPopped
    /\ nextEv = 1
    /\ lastFail = NoFail
    /\ vcall = NoCall
    /\ card = NoCard
    /\ horizon \in {MaxRunEvents, MaxQuickEvents}
    /\ \E u0 \in Users, S \in SUBSET (1..(MaxInitRows + 1)) :
         /\ tastings = {Row(n, u0, n, 0, <<>>, {}) : n \in S} \cup
                       {Row(MaxInitRows + 1 + v, v, MaxInitRows + 2, 0, <<>>, {}) :
                          v \in Users \ {u0}}
         /\ nextId = MaxInitRows + NumUsers + 2

\* the full questionnaire answered step by step, every step with a valid
\* answer or its skip, one infusion, no photos; the quick questionnaire with
\* "don't know" at the type step, a temperature range, and one photo
NextRun ==
    \/ \E u \in Users : RunStart(MaxRunEvents) /\ NewCmd(u)
    \/ \E u \in Users : At(u, "name") /\ NameIn(u, Txt)
    \/ \E u \in Users, raw \in {"2020", "skip"} : At(u, "year") /\ YearIn(u, raw)
    \/ \E u \in Users : At(u, "region") /\ RegionIn(u, Txt)
    \/ \E u \in Users : At(u, "region") /\ RegionSkip(u)
    \/ \E u \in Users : At(u, "category") /\ CatPick(u, "item")
    \/ \E u \in Users, raw \in {"7", "skip"} : At(u, "grams") /\ GramsIn(u, raw)
    \/ \E u \in Users : At(u, "grams") /\ SkipGramsCallback(u)
    \/ \E u \in Users, raw \in {"85", "skip"} : At(u, "temp_c") /\ TempIn(u, raw)
    \/ \E u \in Users : At(u, "temp_c") /\ SkipTempCallback(u)
    \/ \E u \in Users : At(u, "tasted_at") /\ TimeNow(u)
    \/ \E u \in Users : At(u, "tasted_at") /\ TastedAtSkip(u)
    \/ \E u \in Users : At(u, "tasted_at") /\ TastedAtIn(u)
    \/ \E u \in Users : At(u, "gear") /\ GearSkip(u)
    \/ \E u \in Users : At(u, "gear") /\ GearIn(u, Txt)
    \/ \E u \in Users, code \in {"item", "done"} :
         At(u, "aroma_dry") /\ AromaDryToggle(u, code)
    \/ \E u \in Users, code \in {"item", "done"} :
         At(u, "aroma_warmed") /\ AromaWarmedToggle(u, code)
    \/ \E u \in Users : At(u, "seconds") /\ InfSeconds(u)
    \/ \E u \in Users : At(u, "seconds") /\ InfSecondsSkip(u)
    \/ \E u \in Users : At(u, "color") /\ ColorSkip(u)
    \/ \E u \in Users : At(u, "color") /\ InfColor(u)
    \/ \E u \in Users, code \in {"item", "done"} :
         At(u, "taste") /\ TasteToggle(u, code)
    \/ \E u \in Users : At(u, "special") /\ SpecialSkip(u)
    \/ \E u \in Users : At(u, "special") /\ InfSpecial(u)
    \/ \E u \in Users : At(u, "body") /\ InfBodyPick(u, "item")
    \/ \E u \in Users, code \in {"item", "done"} :
         LoopOpen(u) /\ AftertasteToggle(u, code)
    \/ \E u \in Users : LoopAsked(u) /\ FinishInfusions(u)
    \/ \E u \in Users, code \in {"item", "done"} :
         At(u, "effects") /\ EffToggleOrDone(u, code)
    \/ \E u \in Users : At(u, "scenarios") /\ ScnToggleOrDone(u, "done")
    \/ \E u \in Users : At(u, "rating") /\ RatePick(u, 7)
    \/ \E u \in Users : At(u, "summary") /\ SummaryIn(u, Txt)
    \/ \E u \in Users : At(u, "summary") /\ SummarySkip(u)
    \/ \E u \in Users :
         At(u, "photos") /\ data[u].form.flow_kind # "quick" /\ PhotosSkip(u)
    \/ \E u \in Users : RunStart(MaxQuickEvents) /\ QuickNew(u)
    \/ \E u \in Users : At(u, "q_name") /\ QuickNameIn(u, Txt)
    \/ \E u \in Users : At(u, "q_type_pick") /\ QuickSkip(u, "type")
    \/ \E u \in Users : At(u, "q_grams") /\ QuickGramsIn(u, "7")
    \/ \E u \in Users, val \in TempButtons :
         At(u, "q_temp_pick") /\ QuickTempPick(u, val)
    \/ \E u \in Users : At(u, "q_gear_pick") /\ QuickGearPick(u, "item")
    \/ \E u \in Users : At(u, "q_aroma") /\ QuickAromaIn(u, Txt)
    \/ \E u \in Users : At(u, "q_taste") /\ QuickTasteIn(u, Txt)
    \/ \E u \in Users, code \in {"item", "done"} :
         At(u, "q_eff_pick") /\ QuickEffToggle(u, code)
    \/ \E u \in Users : At(u, "q_rating") /\ QuickRatingPick(u, 7)
    \/ \E u \in Users : At(u, "q_note") /\ QuickNoteIn(u, Txt)
    \/ \E u \in Users, step \in SkipSteps \ {"type", "temp"} :
         At(u, SkipState(step)) /\ QuickSkip(u, step)
    \/ \E u \in Users :
         /\ At(u, "photos") /\ data[u].form.flow_kind = "quick"
         /\ data[u].new_photos = <<>>
         /\ PhotoAdd(u, 0)
    \/ \E u \in Users :
         At(u, "photos") /\ data[u].form.flow_kind = "quick" /\ PhotosDone(u)
    \/ \E t \in tasks : AskSent(t)
    \/ \E t \in tasks : Asked(t)
    \/ \E t \in tasks : AppendInfusion(t)
    \/ \E t \in tasks : PromptPhotos(t)
    \/ \E t \in tasks : PhotoPromptSent(t)
    \/ \E t \in tasks : ClearDone(t)
    \/ \E t \in tasks, ok \in BOOLEAN : Downloaded(t, ok)
    \/ \E t \in tasks : ProgressSent(t)

SpecRun == InitRun /\ [][NextRun]_vars

\* ================================================= questionnaire properties
\* the answers of a draft: everything but the return state quick_cancel notes
DraftFields(d) == [d EXCEPT !.form.cancel_return_state = "none"]

\* C11: cancel at a questionnaire step K followed by declining the
\* confirmation is a round trip.  The cancel notes K and changes no answer,
\* the decline sets the step back to the noted K and changes no answer, so the
\* step is K again and every draft field has the value it had before.
C11_CancelDeclineRoundTrip ==
    [][\A u \in Users :
         /\ (QuickCancel(u) /\ fsm[u] \in Questionnaire) =>
               /\ fsm'[u] = "confirm"
               /\ data'[u].form.cancel_return_state = fsm[u]
               /\ DraftFields(data'[u]) = DraftFields(data[u])
         /\ (QuickCancelNo(u) /\ fsm[u] = "confirm"
                /\ data[u].form.cancel_return_state \in Questionnaire) =>
               /\ fsm'[u] = data[u].form.cancel_return_state
               /\ data'[u] = data[u]]_vars

\* a user is back at the step the cancel was pressed at
C11_Witness ==
    \E u \in Users :
        /\ fsm[u] \in Questionnaire
        /\ data[u].form.cancel_return_state = fsm[u]
        /\ data[u].user_id = u

\* C12: from every step of either questionnaire a cancel signal (the cancel
\* button or the /cancel command) leads to the confirmation state and leaves
\* the draft as it is; nothing is discarded before the user confirms.
C12_CancelAsksFirst ==
    [][\A u \in Users :
         ((QuickCancel(u) \/ CancelCmd(u)) /\ fsm[u] \in Questionnaire) =>
             /\ fsm'[u] = "confirm"
             /\ DraftFields(data'[u]) = DraftFields(data[u])]_vars

Preceding(d, st) ==
    IF st \in QuickStates \/ (st = "photos" /\ d.form.flow_kind = "quick")
    THEN (IF QuickBranch(st) # st THEN QuickBranch(st)
          ELSE QuickOrder[Pos(QuickOrder, st) - 1])
    ELSE FullOrder[Pos(FullOrder, st) - 1]

\* C14: at every step of the full and of the quick questionnaire except the
\* first, the back signal moves the user to the immediately preceding step.
C14_BackToPreceding ==
    [][\A u \in Users :
         (QuickBack(u) /\ fsm[u] \in Questionnaire \ {"name", "q_name"}) =>
             fsm'[u] = Preceding(data[u], fsm[u])]_vars

\* the handler of the step changed no answer and no state of u, and is not
\* about to set a state other than the current one
Kept(u) ==
    /\ data'[u] = data[u]
    /\ fsm'[u] = fsm[u]
    /\ \A t \in tasks' \ tasks : t.goto = fsm[u]

\* C15: a skip signal of an optional step S that arrives again when the user
\* has moved past S changes no draft field and not the current step.
C15_SkipReplayNoOp ==
    [][\A u \in Users :
         /\ \A step \in SkipSteps :
              (/\ QuickSkip(u, step)
               /\ data[u].form.flow_kind = "quick"
               /\ fsm[u] \in QuickStates \cup {"photos"}
               /\ Past(QuickOrder, QuickBranch(fsm[u]), SkipState(step)))
              => Kept(u)
         /\ (/\ RegionSkip(u)
             /\ data[u].form.flow_kind # "quick"
             /\ fsm[u] \in FullStates \cup {"photos"}
             /\ Past(FullOrder, fsm[u], "region"))
            => Kept(u)]_vars

\* C16: an answer that breaks the rule of the current step (text that is no
\* number or a number out of range at the year, grams and rating steps, no
\* text at the name steps) changes neither the step nor any draft field.
C16_InvalidAnswerRejected ==
    [][\A u \in Users :
         /\ \A raw \in Raw :
              /\ (YearIn(u, raw) /\ ~IsSkipInput(raw)
                     /\ ~ParseIntOk(raw, YEAR_MIN, YearMax)) => Kept(u)
              /\ (QuickGramsIn(u, raw) /\ ~ParseGramsOk(raw)) => Kept(u)
              /\ (RatingIn(u, raw) /\ ~ParseIntOk(raw, 0, 10)) => Kept(u)
         /\ QuickNameIn(u, Blank) => Kept(u)
         /\ NameIn(u, Blank) => Kept(u)]_vars

\* C17: free text at the taste or aftertaste multi-select step when "other"
\* was not chosen there beforehand is rejected: no draft field and no step
\* changes.
C17_TextNeedsOther ==
    [][\A u \in Users : \A txt \in Texts :
         /\ (TasteCustom(u, txt) /\ ~data[u].form.awaiting_custom_taste)
              => Kept(u)
         /\ (AftertasteCustom(u, txt) /\ ~data[u].form.awaiting_custom_after)
              => Kept(u)]_vars

\* C18: at a multi-select step the text typed after "other" is appended to the
\* accumulator of the step, the items toggled before stay in it, and the
\* user is back at the same multi-select step.
C18_OtherTextAppended ==
    [][\A u \in Users :
         /\ (QuickEffCustomIn(u, Txt) /\ fsm[u] = "q_eff_custom") =>
               /\ data'[u].form.effects = Append(data[u].form.effects, Custom)
               /\ fsm'[u] = "q_eff_pick"
         /\ (TasteCustom(u, Txt) /\ data[u].form.awaiting_custom_taste) =>
               /\ data'[u].form.cur_taste_sel =
                      Append(data[u].form.cur_taste_sel, Custom)
               /\ \A t \in tasks' \ tasks : t.goto = "taste"
         /\ (AftertasteCustom(u, Txt) /\ data[u].form.awaiting_custom_after) =>
               /\ data'[u].form.cur_aftertaste_sel =
                      Append(data[u].form.cur_aftertaste_sel, Custom)
               /\ \A t \in tasks' \ tasks : t.pc # "append"]_vars

\* a draft that holds no answer, no sub-record and no photo
Fresh(d) ==
    [d EXCEPT !.user_id = 0, !.draft = 0, !.form.flow_kind = "none",
              !.form.infusion_n = None] = EmptyData

\* C19: starting a new flow, full or quick, leaves the user one draft that
\* holds only the initial values of the new flow (no answer, sub-record or
\* photo of the draft that was active) and no album entry of the user.
C19_NewFlowReplacesDraft ==
    [][\A u \in Users :
         /\ NewCmd(u) =>
               /\ Fresh(data'[u]) /\ data'[u].user_id = u
               /\ data'[u].form.flow_kind = "none" /\ fsm'[u] = "name"
               /\ data'[u].draft # data[u].draft
               /\ EntriesOf(album', u) = <<>>
         /\ QuickNew(u) =>
               /\ Fresh(data'[u]) /\ data'[u].user_id = u
               /\ data'[u].form.flow_kind = "quick" /\ fsm'[u] = "q_name"
               /\ data'[u].draft # data[u].draft
               /\ EntriesOf(album', u) = <<>>]_vars

\* a new flow was started over a draft that had answers and a buffered photo
C19_Witness ==
    \E u \in Users :
        /\ Fresh(data[u]) /\ data[u].user_id = u /\ data[u].draft > NumUsers
        /\ popped[u][1] = << <<0>> >> /\ album = <<>> /\ timers = {}
        /\ tasks = {}

\* the i-th sub-record carries index i
Indexed(infs) == \A i \in DOMAIN infs : infs[i].n = i

Owners == 1..(NumUsers + 1)
CardFields == {"category", "temp_c"}
CardValues == {1, 2}

\* update_tasting_fields(tid, uid, key=value): a missing row or another
\* user's row -> False; else setattr and commit -> True
UpdateTastingFields(u, tid, key, value) ==
    /\ LET mine == {r \in tastings : r.id = tid /\ Owns(r, u)} IN
       IF mine = {}
       THEN /\ card' = [op |-> "update", uid |-> u, tid |-> tid, ok |-> FALSE]
            /\ UNCHANGED tastings
       ELSE /\ tastings' = (tastings \ mine) \cup
                               {[r EXCEPT ![key] = value] : r \in mine}
            /\ card' = [op |-> "update", uid |-> u, tid |-> tid, ok |-> TRUE]
    /\ UNCHANGED <<gatewayVars, nextId, botVars, vcall, horizon>>

\* every owner has some records; nobody is in a questionnaire
InitCard ==
    /\ dialect = "postgresql"
    /\ \E have \in SUBSET Owners :
         /\ tastings = {Row(u, u, 1, 0, <<>>, {}) : u \in have}
         /\ issued = [u \in Owners |-> IF u \in have THEN 1 ELSE 0]
    /\ nextId = NumUsers + 2
    /\ sess = [p \in Procs |-> IdleSess]
    /\ deleted = FALSE /\ calls = 0
    /\ fsm = [u \in Owners |-> "none"]
    /\ data = [u \in Owners |-> EmptyData]
    /\ album = <<>> /\ timers = {} /\ tasks = {}
    /\ nextEv = 1 /\ lastFail = NoFail
    /\ bursts = <<>> /\ popped = <<>>
    /\ chat = [u \in Owners |-> {}]
    /\ vcall = NoCall
    /\ card = NoCard
    /\ horizon = 0

NextCard ==
    \/ \E u \in Owners, tid \in Owners : DelOk(u, tid)
    \/ \E u \in Owners, tid \in Owners, key \in CardFields, value \in CardValues :
          UpdateTastingFields(u, tid, key, value)

SpecCard == InitCard /\ [][NextCard]_vars

\* ========================================================== the validators
\* parse_int and parse_float, applied to a typed text.  A text is a sequence
\* of characters; a decimal is an integer number of units of 1 / Scale.
MaxLen == 4       \* characters of a typed text

IntChars == {" ", "-", "+", "_", "0", "1", "7", "a"}
FloatChars == {" ", ",", ".", "-", "0", "4", "5", "x"}
TextsOver(chars) == UNION {[1..n -> chars] : n \in 0..MaxLen}
\* (min_value, max_value) of a parse_int call
IntRanges == {<<1, 10>>, <<-1, 71>>}
\* (min_value, max_value) of a parse_float call, in tenths
FloatRanges == {<<1, 50>>, <<0, 45>>}
Precisions == {0, 1}

DecDigits == <<"0", "1", "2", "3", "4", "5", "6", "7", "8", "9">>
IsDecDigit(c) == \E i \in DOMAIN DecDigits : DecDigits[i] = c
DigitOf(c) == (CHOOSE i \in DOMAIN DecDigits : DecDigits[i] = c) - 1

RECURSIVE Pow10(_)
Pow10(n) == IF n = 0 THEN 1 ELSE 10 * Pow10(n - 1)
\* a text of MaxLen characters has fewer than MaxLen decimal places
Scale == Pow10(MaxLen)

\* str.strip()
RECURSIVE LStrip(_)
LStrip(t) == IF t # <<>> /\ Head(t) = " " THEN LStrip(Tail(t)) ELSE t
RECURSIVE RStrip(_)
RStrip(t) ==
    IF t # <<>> /\ t[Len(t)] = " " THEN RStrip(SubSeq(t, 1, Len(t) - 1)) ELSE t
Strip(t) == RStrip(LStrip(t))

\* the sign a numeric string starts with, and the rest
SignOf(t) == IF t # <<>> /\ Head(t) = "-" THEN -1 ELSE 1
Unsigned(t) == IF t # <<>> /\ Head(t) \in {"+", "-"} THEN Tail(t) ELSE t

\* digits read from the left; an underscore between two digits is skipped
RECURSIVE DigitsValue(_, _)
DigitsValue(t, acc) ==
    IF t = <<>> THEN acc
    ELSE IF Head(t) = "_" THEN DigitsValue(Tail(t), acc)
    ELSE DigitsValue(Tail(t), 10 * acc + DigitOf(Head(t)))

\* int(text) accepts: digits, with single underscores between digits
IntBody(t) ==
    /\ t # <<>>
    /\ IsDecDigit(t[1]) /\ IsDecDigit(t[Len(t)])
    /\ \A i \in 1..Len(t) :
          \/ IsDecDigit(t[i])
          \/ t[i] = "_" /\ IsDecDigit(t[i - 1]) /\ IsDecDigit(t[i + 1])

Raise(err) == [raised |-> err, value |-> None]
Return(v) == [raised |-> "none", value |-> v]

\* if value < min_value or value > max_value: raise ValueError(error_message)
OutOfRangeNever(v, lo, hi) == FALSE
OutOfRange(v, lo, hi) == v < lo \/ v > hi

\* parse_int(raw, min_value=lo, max_value=hi, error_message=...)
ParseInt(raw, lo, hi) ==
    LET text == Strip(raw)
        body == Unsigned(text)
        value == SignOf(text) * DigitsValue(body, 0)
    IN  IF ~IntBody(body) THEN Raise("ValueError")
        ELSE IF OutOfRange(value, lo, hi) THEN Raise("ValueError")
        ELSE Return(value)

\* text.replace(",", ".")
CommaToDot(t) == [i \in DOMAIN t |-> IF t[i] = "," THEN "." ELSE t[i]]

\* Decimal(text) accepts: digits with at most one point, one digit at least
Points(t) == {i \in DOMAIN t : t[i] = "."}
DecimalBody(t) ==
    /\ \A i \in DOMAIN t : IsDecDigit(t[i]) \/ t[i] = "."
    /\ Cardinality(Points(t)) <= 1
    /\ \E i \in DOMAIN t : IsDecDigit(t[i])

\* the value of the digits after the point, in units
RECURSIVE FractionValue(_, _)
FractionValue(t, unit) ==
    IF t = <<>> THEN 0
    ELSE DigitOf(Head(t)) * (unit \div 10) + FractionValue(Tail(t), unit \div 10)

DecimalValue(t) ==
    LET dot == IF Points(t) = {} THEN Len(t) + 1 ELSE CHOOSE i \in Points(t) : TRUE
    IN  DigitsValue(SubSeq(t, 1, dot - 1), 0) * Scale
          + FractionValue(SubSeq(t, dot + 1, Len(t)), Scale)

\* value.quantize(Decimal(10) ** -precision, rounding=ROUND_HALF_UP): the
\* nearest multiple of the quantum, a tie going away from zero
QuantizeDown(v, precision) ==
    LET q == Scale \div Pow10(precision)
        mag == IF v < 0 THEN -v ELSE v
    IN  (IF v < 0 THEN -1 ELSE 1) * ((mag \div q) * q)
Quantize(v, precision) ==
    LET q == Scale \div Pow10(precision)
        mag == IF v < 0 THEN -v ELSE v
    IN  (IF v < 0 THEN -1 ELSE 1) * (((2 * mag + q) \div (2 * q)) * q)

\* Decimal(str(min_value)) of a bound given in tenths
Tenths(x) == x * (Scale \div 10)

\* parse_float(raw, min_value=lo, max_value=hi, error_message=...,
\* precision=precision); lo and hi in tenths, the result in units
ParseFloat(raw, lo, hi, precision) ==
    LET text == CommaToDot(Strip(raw))
        body == Unsigned(text)
        value == Quantize(SignOf(text) * DecimalValue(body), precision)
    IN  IF text = <<>> THEN Raise("ValueError")
        ELSE IF ~DecimalBody(body) THEN Raise("ValueError")
        ELSE IF value < Tenths(lo) \/ value > Tenths(hi) THEN Raise("ValueError")
        ELSE Return(value)

\* the call returns or raises
Finish(call, out) ==
    [call EXCEPT !.done = TRUE, !.raised = out.raised, !.value = out.value]

ParseIntCall ==
    /\ vcall.fn = "parse_int" /\ ~vcall.done
    /\ vcall' = Finish(vcall, ParseInt(vcall.text, vcall.min, vcall.max))
    /\ UNCHANGED <<gatewayVars, tastings, nextId, botVars, card, horizon>>

ParseFloatCall ==
    /\ vcall.fn = "parse_float" /\ ~vcall.done
    /\ vcall' = Finish(vcall, ParseFloat(vcall.text, vcall.min, vcall.max,
                                         vcall.precision))
    /\ UNCHANGED <<gatewayVars, tastings, nextId, botVars, card, horizon>>

\* a handler is about to validate a typed text
InitValidators ==
    /\ dialect = "postgresql"
    /\ tastings = {} /\ nextId = 1
    /\ sess = [p \in Procs |-> IdleSess]
    /\ issued = [u \in Users |-> 0]
    /\ deleted = FALSE /\ calls = 0
    /\ fsm = [u \in Users |-> "none"]
    /\ data = [u \in Users |-> EmptyData]
    /\ album = <<>> /\ timers = {} /\ tasks = {}
    /\ nextEv = 1 /\ lastFail = NoFail
    /\ bursts = NoBursts /\ popped = NoPopped
    /\ chat = [u \in Users |-> {}]
    /\ card = NoCard
    /\ horizon = 0
    /\ \/ \E t \in TextsOver(IntChars), r \in IntRanges :
            vcall = [NoCall EXCEPT !.fn = "parse_int", !.text = t,
                                   !.min = r[1], !.max = r[2]]
       \/ \E t \in TextsOver(FloatChars), r \in FloatRanges, pr \in Precisions :
            vcall = [NoCall EXCEPT !.fn = "parse_float", !.text = t,
                                   !.min = r[1], !.max = r[2], !.precision = pr]

NextValidators == ParseIntCall \/ ParseFloatCall

SpecValidators == InitValidators /\ [][NextValidators]_vars

\* ================================================= persistence properties
\* (C30) A record is persisted, and a draft cleared, only by a done or skip
\* signal received at the photo step: such a signal received at another step,
\* or without a draft, adds no record, clears no draft and starts no finalize.
C30_PersistOnlyAtPhotoStep ==
    [][\A u \in Users :
          (PhotosSkip(u) \/ PhotosDone(u)) /\ fsm[u] # "photos"
             => /\ tastings' = tastings
                /\ data'[u] = data[u]
                /\ tasks' = tasks]_vars

\* (C23) Create is all-or-nothing.  A record inserted by an open transaction
\* is not in the store before the commit; the step in which a create attempt
\* fails (uniqueness violation or blob-store error) leaves the store as it
\* was; and the record of a finished create holds all the infusions and all
\* the photos its caller passed.
C23_CreateAllOrNothing ==
    /\ [](\A p \in Procs :
            /\ sess[p].pc = "children"
                  => \A r \in tastings : r.id # sess[p].row
            /\ sess[p].pc = "done"
                  => \A r \in tastings :
                        r.id = sess[p].row
                           => /\ Len(r.infusions) = sess[p].args[1]
                              /\ Len(r.photos) = sess[p].args[2])
    /\ [][\A p \in Procs :
            (\/ sess'[p].viol > sess[p].viol
             \/ (sess[p].pc # "failed" /\ sess'[p].pc = "failed"))
               => tastings' = tastings]_vars

\* C23 witness: one session has committed a record with an infusion and a
\* photo while another create has failed in the blob store.
C23_Witness ==
    \E p \in Procs, q \in Procs :
        /\ sess[p].pc = "done" /\ sess[p].args = <<1, 1>>
        /\ \E r \in tastings : r.id = sess[p].row
        /\ sess[q].pc = "failed" /\ sess[q].err = "storage"

\* ==================================================== validator properties
\* the text between the surrounding blanks
Inner(t) ==
    LET solid == {i \in DOMAIN t : t[i] # " "}
    IN  IF solid = {} THEN <<>>
        ELSE SubSeq(t, CHOOSE i \in solid : \A j \in solid : i <= j, SetMax(solid))

\* a text with its leading sign removed
Magnitude(t) == IF t # <<>> /\ t[1] \in {"+", "-"} THEN SubSeq(t, 2, Len(t)) ELSE t
Negative(t) == t # <<>> /\ t[1] = "-"

\* the number written by a sequence of digits: digit i counts 10^(length - i)
RECURSIVE Positional(_)
Positional(ds) ==
    IF ds = <<>> THEN 0
    ELSE DigitOf(ds[Len(ds)]) + 10 * Positional(SubSeq(ds, 1, Len(ds) - 1))

\* groups of digits joined by single underscores
Numeral(t) ==
    /\ SelectSeq(t, IsDecDigit) # <<>>
    /\ \A i \in DOMAIN t : IsDecDigit(t[i]) \/ t[i] = "_"
    /\ t[1] # "_" /\ t[Len(t)] # "_"
    /\ \A i \in 1..(Len(t) - 1) : ~(t[i] = "_" /\ t[i + 1] = "_")

\* (C28) Integer validator: a text that is an integer within [min, max],
\* surrounding blanks ignored, yields that integer; every other text (not a
\* number, or a number outside the range) fails with ValueError(error_message)
\* and yields no value.
C28_IntegerValidator ==
    (vcall.fn = "parse_int" /\ vcall.done) =>
        LET core == Inner(vcall.text)
            written == Magnitude(core)
            n == (IF Negative(core) THEN -1 ELSE 1) *
                     Positional(SelectSeq(written, IsDecDigit))
        IN  IF Numeral(written) /\ n >= vcall.min /\ n <= vcall.max
            THEN vcall.raised = "none" /\ vcall.value = n
            ELSE vcall.raised = "ValueError" /\ vcall.value = None

\* C28 witness: " +7 " was validated against [1, 10] and 7 came back.
C28_Witness ==
    /\ vcall.fn = "parse_int" /\ vcall.done
    /\ vcall.text = <<" ", "+", "7", " ">>
    /\ vcall.min = 1 /\ vcall.max = 10
    /\ vcall.raised = "none" /\ vcall.value = 7

\* the decimal a text writes: digits around at most one separator, comma or
\* dot alike, counted in units
Separators(t) == {i \in DOMAIN t : t[i] \in {",", "."}}
DecimalNumeral(t) ==
    /\ \A i \in DOMAIN t : IsDecDigit(t[i]) \/ i \in Separators(t)
    /\ Cardinality(Separators(t)) <= 1
    /\ SelectSeq(t, IsDecDigit) # <<>>
Exact(t) ==
    LET places == IF Separators(t) = {} THEN 0
                  ELSE Len(t) - (CHOOSE i \in Separators(t) : TRUE)
    IN  Positional(SelectSeq(t, IsDecDigit)) * (Scale \div Pow10(places))

Abs(x) == IF x < 0 THEN -x ELSE x
\* v is x rounded half-up to a multiple of q
RoundedHalfUp(v, x, q) ==
    /\ Abs(v) % q = 0
    /\ 2 * Abs(v - x) <= q
    /\ 2 * Abs(v - x) = q => Abs(v) > Abs(x)

\* (C29) Decimal validator: it fails for every text whose numeric value is
\* outside [min, max]; for every text whose value is inside the range it
\* returns the value rounded half-up to N decimal digits, a comma read as a
\* dot.
C29_DecimalValidator ==
    (vcall.fn = "parse_float" /\ vcall.done) =>
        LET core == Inner(vcall.text)
            written == Magnitude(core)
            x == (IF Negative(core) THEN -1 ELSE 1) * Exact(written)
            q == Scale \div Pow10(vcall.precision)
        IN  DecimalNumeral(written) =>
               IF x < Tenths(vcall.min) \/ x > Tenths(vcall.max)
               THEN vcall.raised # "none"
               ELSE vcall.raised = "none" /\ RoundedHalfUp(vcall.value, x, q)

\* (C29, amended) Decimal validator: the value of a decimal text, a comma read
\* as a dot, is first rounded half-up to N decimal digits; the validator fails
\* with ValueError(error_message) exactly when the rounded value is outside
\* [min, max], and otherwise returns the rounded value.
C29_DecimalValidatorRounded ==
    (vcall.fn = "parse_float" /\ vcall.done) =>
        LET core == Inner(vcall.text)
            written == Magnitude(core)
            sign == IF Negative(core) THEN -1 ELSE 1
            x == sign * Exact(written)
            q == Scale \div Pow10(vcall.precision)
            below == (Abs(x) \div q) * q
            inside(v) == v >= Tenths(vcall.min) /\ v <= Tenths(vcall.max)
        IN  DecimalNumeral(written) =>
               IF \E v \in {sign * below, sign * (below + q)} :
                     RoundedHalfUp(v, x, q) /\ inside(v)
               THEN /\ vcall.raised = "none"
                    /\ RoundedHalfUp(vcall.value, x, q) /\ inside(vcall.value)
               ELSE vcall.raised = "ValueError" /\ vcall.value = None

\* C29 witness: "5,04" was validated against [0.1, 5.0] at one decimal digit
\* and 5.0 came back.
C29_Witness ==
    /\ vcall.fn = "parse_float" /\ vcall.done
    /\ vcall.text = <<"5", ",", "0", "4">>
    /\ vcall.min = 1 /\ vcall.max = 50 /\ vcall.precision = 1
    /\ vcall.raised = "none" /\ vcall.value = Tenths(50)

\* ======================================================= card properties
\* (C24) Ownership: whatever edit or delete a user issues, on whatever record
\* id, every record created by a different user is in the store afterwards
\* with every field as it was; an operation aimed at another user's record
\* leaves the store unchanged.
C24_Ownership ==
    [][/\ \A r \in tastings : r.user_id # card'.uid => r \in tastings'
       /\ \A r \in tastings :
             (r.id = card'.tid /\ r.user_id # card'.uid) => tastings' = tastings]_vars

\* C24 witness: an edit or delete aimed at an existing record of another user
\* has been refused, after a delete by an owner went through.
C24_Witness ==
    /\ card.op \in {"update", "delete"} /\ ~card.ok
    /\ \E r \in tastings : r.id = card.tid /\ r.user_id # card.uid
    /\ deleted
\* =========================================================== prompt properties
\* the messages of user u that show buttons: the questions ask_next left with
\* their markup, and the photo prompt that progress_msg_id names
LivePrompts(u) == Cardinality(chat[u]) + (IF data[u].progress # 0 THEN 1 ELSE 0)

\* C21: at most one live prompt.  After any number of consecutive prompts of
\* one conversation, the hand-over from the last question to the photo prompt
\* included, no more than one message with active buttons is in the chat:
\* issuing a prompt has invalidated the one before it.
C21_OneLivePrompt == \A u \in Users : LivePrompts(u) <= 1

\* ========================================================= ordering properties
\* the draft key that holds the answer of step st
StepKey(d, st) ==
    CASE st \in {"name", "q_name"} -> d.name
      [] st \in {"category", "q_type_pick", "q_type_custom"} -> d.category
      [] st = "year" -> d.form.year
      [] st = "region" -> d.form.region
      [] st = "q_grams" -> d.form.grams
      [] st = "q_temp_pick" -> d.form.temp_c
      [] st \in {"q_gear_pick", "q_gear_custom"} -> d.form.gear
      [] st = "q_aroma" -> d.form.aroma_dry
      [] st = "q_taste" -> d.form.aroma_warmed
      [] st \in {"q_eff_pick", "q_eff_custom"} -> d.form.effects
      [] st = "taste" -> d.form.cur_taste
      [] st \in {"rating", "q_rating"} -> d.form.rating
      [] st \in {"summary", "q_note"} -> d.form.summary
AnswerSteps ==
    {"name", "q_name", "category", "year", "region", "q_grams", "q_temp_pick",
     "q_gear_pick", "q_aroma", "q_taste", "q_eff_pick", "taste", "rating",
     "summary"}

\* the step of handler H has written v as the answer of step st, and the only
\* step the handler has set or is going to set is next
Committed(u, st, v, next) ==
    /\ StepKey(data'[u], st) = v
    /\ fsm'[u] \in {fsm[u], next}
    /\ \A t \in tasks' \ tasks : t.uid = u /\ t.goto = next

\* C22: the steps of one conversation are strictly sequential.  The handler
\* of an answer or of a skip at step N writes the value of N in the step that
\* receives it, and sets or schedules no step but N+1; the current step of a
\* user changes only in such a handler step or when a suspended handler
\* resumes and sets the step it scheduled; and a resuming handler writes no
\* answer.  So when the current step becomes N+1 the value of N has been
\* written, and no input meets step N+1 before that.
C22_StepsSequential ==
    [][\A u \in Users :
         /\ \A txt \in Texts :
              /\ NameIn(u, txt) => Committed(u, "name", txt, "year")
              /\ RegionIn(u, txt) =>
                    Committed(u, "region", IF txt = Blank THEN None ELSE txt,
                              "category")
              /\ SummaryIn(u, txt) => Committed(u, "summary", txt, "photos")
              /\ QuickNameIn(u, Txt) => Committed(u, "q_name", Txt, "q_type_pick")
              /\ QuickTypeCustomIn(u, Txt) =>
                    Committed(u, "q_type_custom", Custom, "q_grams")
              /\ QuickGearCustomIn(u, Txt) =>
                    Committed(u, "q_gear_custom", Custom, "q_aroma")
              /\ QuickAromaIn(u, Txt) => Committed(u, "q_aroma", Txt, "q_taste")
              /\ QuickTasteIn(u, Txt) => Committed(u, "q_taste", Txt, "q_eff_pick")
              /\ QuickNoteIn(u, txt) =>
                    Committed(u, "q_note", IF txt = Blank THEN None ELSE txt,
                              "photos")
         /\ \A raw \in Raw :
              /\ (YearIn(u, raw) /\ IsSkipInput(raw)) =>
                    Committed(u, "year", None, "region")
              /\ (YearIn(u, raw) /\ ParseIntOk(raw, YEAR_MIN, YearMax)) =>
                    Committed(u, "year", IntOf(raw), "region")
              /\ (QuickGramsIn(u, raw) /\ ParseGramsOk(raw)) =>
                    Committed(u, "q_grams", IntOf(raw), "q_temp_pick")
              /\ RatingIn(u, raw) =>
                    Committed(u, "rating",
                              Clamp(IF IsDigit(raw) THEN IntOf(raw) ELSE 0),
                              "summary")
         /\ RegionSkip(u) => Committed(u, "region", None, "category")
         /\ SummarySkip(u) => Committed(u, "summary", None, "photos")
         /\ QuickTypePick(u, "item") => Committed(u, "q_type_pick", 1, "q_grams")
         /\ \A val \in TempButtons :
              QuickTempPick(u, val) => Committed(u, "q_temp_pick", val, "q_gear_pick")
         /\ QuickGearPick(u, "item") => Committed(u, "q_gear_pick", 1, "q_aroma")
         /\ QuickRatingPick(u, 7) => Committed(u, "q_rating", 7, "q_note")
         /\ \A step \in SkipSteps :
              QuickSkip(u, step) =>
                 Committed(u, SkipState(step),
                           CASE step = "type" -> Fallback
                             [] step = "eff" -> <<>>
                             [] OTHER -> None,
                           AfterSkip(step))
         /\ fsm'[u] # fsm[u] =>
               \/ nextEv' # nextEv
               \/ \E t \in tasks \ tasks' : t.uid = u /\ t.goto = fsm'[u]
         /\ \A t \in tasks \ tasks' :
               (t.uid = u /\ t.kind = "flow" /\ t.pc # "append") =>
                   \A st \in AnswerSteps :
                       StepKey(data'[u], st) = StepKey(data[u], st)]_vars

\* a user who answered the title question is at the year step, the handler
\* has finished, and the draft holds the title
C22_Witness ==
    \E u \in Users :
        /\ fsm[u] = "year" /\ data[u].name = Txt /\ data[u].form.year = None
        /\ data[u].form.live_q_id = 1 /\ tasks = {} /\ nextEv = 2

\* ====================================================== end-to-end properties
\* the records made during the run: rows of earlier runs carry no draft
Made(rows) == {r \in rows : r.draft # 0}

\* C26: a run through the full questionnaire from /new, with a valid answer or
\* a skip at every step, one infusion loop and the photos skipped, persists
\* exactly one record: it is the user's, its seq_no is the user's previous
\* maximum plus one, it has one infusion, numbered 1, and no photo; the draft
\* is cleared in the step that persists it.
C26_FullRunPersistsOne ==
    [][\A u \in Users :
         (horizon = MaxRunEvents /\ fsm[u] = "photos" /\ tastings' # tastings) =>
            \E r \in tastings' \ tastings :
               /\ tastings' = tastings \cup {r}
               /\ Made(tastings') = {r}
               /\ r.user_id = u
               /\ r.seq_no = LastSeq(RowsOf(tastings, u)) + 1
               /\ Len(r.infusions) = 1
               /\ r.infusions[1].n = 1
               /\ r.photos = <<>>
               /\ data'[u] = EmptyData
               /\ fsm'[u] = "none"]_vars

\* the run is over and its record follows a gap in the user's numbers
C26_Witness ==
    /\ horizon = MaxRunEvents /\ tasks = {}
    /\ \E u \in Users :
         /\ fsm[u] = "none" /\ data[u] = EmptyData
         /\ {r.seq_no : r \in RowsOf(tastings, u)} = {MaxInitRows + 1, MaxInitRows + 2}
         /\ \E r \in Made(tastings) :
              r.user_id = u /\ r.seq_no = MaxInitRows + 2 /\ Len(r.infusions) = 1

\* the upper bounds of the ranges of the temperature keyboard
UpperBounds == {QUICK_TEMPS[i][2] : i \in DOMAIN QUICK_TEMPS}

\* C27: in a run through the quick questionnaire, the "don't know" skip at the
\* type step (the one update the run takes there) stores the fallback category, a temperature button stores the
\* upper bound of a range, and after one photo and "done" exactly one record
\* is persisted: it has the fallback category, the temperature picked, one
\* photo and no infusion.
C27_QuickRunPersistsOne ==
    [][\A u \in Users :
         horizon = MaxQuickEvents =>
           /\ (fsm[u] = "q_type_pick" /\ nextEv' # nextEv) =>
                 data'[u] = [data[u] EXCEPT !.category = Fallback]
           /\ (fsm[u] = "q_temp_pick" /\ nextEv' # nextEv) =>
                 \E hi \in UpperBounds :
                    data'[u] = [data[u] EXCEPT !.form.temp_c = hi]
           /\ (fsm[u] = "photos" /\ tastings' # tastings) =>
                 \E r \in tastings' \ tastings :
                    /\ tastings' = tastings \cup {r}
                    /\ Made(tastings') = {r}
                    /\ r.user_id = u
                    /\ r.category = Fallback
                    /\ r.temp_c = data[u].form.temp_c
                    /\ r.temp_c \in UpperBounds
                    /\ Len(r.photos) = 1
                    /\ r.infusions = <<>>]_vars

\* the run is over: the record has the fallback category, the upper bound of
\* the hottest range and the photo
C27_Witness ==
    /\ horizon = MaxQuickEvents /\ tasks = {}
    /\ \E u \in Users :
         /\ fsm[u] = "none" /\ data[u] = EmptyData
         /\ \E r \in Made(tastings) :
              /\ r.user_id = u /\ r.category = Fallback /\ r.temp_c = 100
              /\ Len(r.photos) = 1 /\ r.infusions = <<>>

\* ================================================================ two users
\* where a user is when the run starts: idle, at a step of the full or of
\* the quick questionnaire, or at the photo step of either
Places == {"none", "year", "q_type_pick", "photos", "q_photos"}
DraftIn(u, place) ==
    CASE place = "none" -> EmptyData
      [] place = "year" -> FullDraftAt(u, "year", TRUE, 0, FALSE, FALSE)
      [] place = "q_type_pick" -> QuickDraftAt(u, "q_type_pick", TRUE, FALSE)
      [] place = "photos" -> FullDraftAt(u, "photos", TRUE, 0, FALSE, FALSE)
      [] place = "q_photos" -> QuickDraftAt(u, "photos", TRUE, FALSE)
StateIn(place) == IF place = "q_photos" THEN "photos" ELSE place

\* FSM storage is keyed by user, ALBUM_BUFFER by (uid, media_group_id); the
\* same media_group_id may reach the bot from both users
InitCross ==
    /\ dialect = "postgresql"
    /\ tastings = {}
    /\ nextId = 1
    /\ sess = [p \in Procs |-> IdleSess]
    /\ issued = [u \in Owners |-> 0]
    /\ deleted = FALSE
    /\ calls = 0
    /\ album = <<>> /\ timers = {} /\ tasks = {}
    /\ bursts = [u \in Owners |-> [g \in Albums |-> [closed |-> <<>>, open |-> <<>>]]]
    /\ popped = [u \in Owners |-> [g \in Albums |-> <<>>]]
    /\ nextEv = 1
    /\ lastFail = NoFail
    /\ vcall = NoCall
    /\ card = NoCard
    /\ horizon = 0
    /\ \E place \in [Owners -> Places] :
         /\ fsm = [u \in Owners |-> StateIn(place[u])]
         /\ data = [u \in Owners |-> DraftIn(u, place[u])]
         /\ chat = [u \in Owners |->
                      IF place[u] \in {"year", "q_type_pick"}
                      THEN {FirstQuestion} ELSE {}]

\* what reaches the bot from user a, and what the bot does on a's behalf:
\* an answer, a button, a photo, an album timer, a cancel, a new flow, and
\* the rest of each handler
UserStep(a) ==
    \/ NewCmd(a)
    \/ QuickNew(a)
    \/ CancelCmd(a)
    \/ QuickCancel(a)
    \/ \E raw \in Raw : YearIn(a, raw)
    \/ RegionSkip(a)
    \/ QuickTypePick(a, "item")
    \/ \E step \in {"type", "note"} : QuickSkip(a, step)
    \/ \E g \in 0..NumAlbums : PhotoAdd(a, g)
    \/ PhotosDone(a)
    \/ PhotosSkip(a)
    \/ \E tm \in timers : tm.uid = a /\ TimerFire(tm)
    \/ \E t \in tasks : t.uid = a /\ AskSent(t)
    \/ \E t \in tasks : t.uid = a /\ Asked(t)
    \/ \E t \in tasks : t.uid = a /\ PromptPhotos(t)
    \/ \E t \in tasks : t.uid = a /\ PhotoPromptSent(t)
    \/ \E t \in tasks : t.uid = a /\ ClearDone(t)
    \/ \E t \in tasks, ok \in BOOLEAN : t.uid = a /\ Downloaded(t, ok)
    \/ \E t \in tasks : t.uid = a /\ ProgressSent(t)

NextCross == \E a \in Owners : UserStep(a)

SpecCross == InitCross /\ [][NextCross]_vars

\* C25: a step taken for user a (an answer, a button, a photo, an album
\* timer, a cancel, a new flow, or the rest of one of a's handlers) changes
\* neither the draft, nor the questionnaire step, nor the album buffer entries
\* of any other user b.
C25_NoCrossUserSharing ==
    [][\A a \in Owners :
         UserStep(a) =>
            \A b \in Owners \ {a} :
               /\ data'[b] = data[b]
               /\ fsm'[b] = fsm[b]
               /\ EntriesOf(album', b) = EntriesOf(album, b)]_vars

\* both users have a photo of the same media group buffered, and one of them
\* starts a new flow, which drops that user's entry alone
C25_Witness ==
    \E a \in Owners, b \in Owners :
       /\ a # b
       /\ EntriesOf(album, a) = <<>> /\ data[a].draft > NumUsers + 1
       /\ fsm[a] = "name" /\ fsm[b] = "photos"
       /\ Len(EntriesOf(album, b)) = 1 /\ EntriesOf(album, b)[1].gid = 1
       /\ Len(popped[a][1]) = 1

\* ======================================================= concurrent writers
\* C31: no accepted photo is lost to a concurrent writer.  While a draft
\* lives, a handler that writes the photo list (a single photo, an album
\* flush by timer or by finalize) keeps every photo the draft already holds,
\* so every photo whose download succeeded is in the draft when all handlers
\* have completed.
C31_NoPhotoLost ==
    [][\A u \in Users :
         (data[u].draft # 0 /\ data'[u].draft = data[u].draft) =>
            Range(data[u].new_photos) \subseteq Range(data'[u].new_photos)]_vars

\* C32: a cancel or reset that discards the draft of a user leaves no album
\* buffer entry of that user, and while the user is in no flow the album
\* handlers write no photo into the user's emptied store.
C32_DiscardDropsAlbums ==
    [][\A u \in Users :
         /\ (CancelCmd(u) \/ QuickCancelYes(u)) => EntriesOf(album', u) = <<>>
         /\ (fsm[u] = "none" /\ fsm'[u] = "none" /\ data[u] = EmptyData) =>
               data'[u].new_photos = <<>>]_vars

\* C33: while the cancel confirmation is pending, the stored return step is a
\* step of a questionnaire, never the confirmation state itself, also when
\* the cancel button is received again during the confirmation.
C33_ReturnStepIsQuestion ==
    \A u \in Users :
       fsm[u] = "confirm" => data[u].form.cancel_return_state \in Questionnaire

\* ================================================================= debounce
\* the sleeping timers of a key
PendingTimers(u, g) == {tm \in timers : tm.uid = u /\ tm.gid = g}

\* C34: debounce, not a fixed window.  For every (user, batch-id) at most one
\* flush timer is pending, and it is the timer started by the last photo that
\* was put in the buffer for the key: every further photo has aborted the
\* timer before it, so the entry is flushed by the deadline of its last photo
\* and never while a newer timer of the key is pending.
C34_Debounce ==
    \A u \in Users, g \in Albums :
       /\ Cardinality(PendingTimers(u, g)) <= 1
       /\ HasEntry(album, u, g) =>
             \A tm \in PendingTimers(u, g) :
                LET files == EntryOf(album, u, g).files
                IN  tm.id = files[Len(files)]

\* three photos of one batch-id are buffered; the timer of the third is the
\* only one pending
C34_Witness ==
    \E u \in Users, g \in Albums :
       /\ HasEntry(album, u, g)
       /\ Len(EntryOf(album, u, g).files) = 3
       /\ Cardinality(PendingTimers(u, g)) = 1

\* ========================================================= one flush at a time
MaxAlbumEvents == 4   \* updates of a run at the photo step

\* no handler is suspended: the next update or timer finds the store at rest
Settled == tasks = {}

\* the photo step has just been entered; the updates are handled one after the
\* other and every download succeeds
InitAlbum ==
    /\ dialect = "postgresql"
    /\ tastings = {}
    /\ nextId = 1
    /\ sess = [p \in Procs |-> IdleSess]
    /\ issued = [u \in Users |-> 0]
    /\ deleted = FALSE
    /\ calls = 0
    /\ fsm = [u \in Users |-> "photos"]
    /\ data = [u \in Users |-> AtPhotoStep(u)]
    /\ album = <<>> /\ timers = {} /\ tasks = {}
    /\ nextEv = 1
    /\ lastFail = NoFail
    /\ bursts = NoBursts
    /\ popped = NoPopped
    /\ chat = [u \in Users |-> {}]
    /\ vcall = NoCall
    /\ card = NoCard
    /\ horizon = MaxAlbumEvents

NextAlbum ==
    \/ \E u \in Users, g \in 0..NumAlbums : Settled /\ PhotoAdd(u, g)
    \/ \E u \in Users : Settled /\ PhotosDone(u)
    \/ \E tm \in timers : Settled /\ TimerFire(tm)
    \/ \E t \in tasks : Downloaded(t, TRUE)
    \/ \E t \in tasks : ProgressSent(t)
    \/ \E t \in tasks : ClearDone(t)

SpecAlbum == InitAlbum /\ [][NextAlbum]_vars

\* the number of buffered photos a flush lets in: min(k, N - p), none when
\* the draft is full
Admitted(k, p) == IF MaxPhotos - p <= 0 THEN 0
                  ELSE IF k <= MaxPhotos - p THEN k ELSE MaxPhotos - p

\* C35: album flush result.  A buffer of k photos flushed (by its timer or by
\* "done") into a draft of p photos under the cap N, every download
\* succeeding, leaves the draft with its previous photos followed by the
\* first min(k, N - p) buffered photos in arrival order; while the flush is
\* under way the photos still to be downloaded complete exactly that list.
C35_FlushResult ==
    \A t \in tasks :
       t.batch # <<>> =>
          LET m == Admitted(Len(t.batch), Len(t.base))
          IN  data[t.uid].new_photos \o t.files = t.base \o SubSeq(t.batch, 1, m)

\* a flush has downloaded its last photo: three were buffered, the draft held
\* one, and one of the three was let in
C35_Witness ==
    \E t \in tasks :
       /\ Len(t.batch) = 3 /\ Len(t.base) = 1 /\ t.files = <<>>
       /\ data[t.uid].new_photos = <<t.base[1], t.batch[1]>>

\* ================================================================= liveness
\* the process keeps running: asyncio.sleep(ALBUM_TIMEOUT) of a timer that is
\* not cancelled returns
SpecPhotoLive ==
    InitPhoto /\ [][NextPhoto]_vars /\ WF_vars(\E tm \in timers : TimerFire(tm))

\* C36: every album buffer entry is eventually destroyed.  No entry is in the
\* buffer without a sleeping timer of its key, and once the photos of the key
\* stop arriving an entry leaves the buffer: its timer fires, a finalize
\* flushes it, or a new flow discards it.
C36_EntryDestroyed ==
    /\ [](\A u \in Users, g \in Albums :
             HasEntry(album, u, g) => PendingTimers(u, g) # {})
    /\ \A u \in Users, g \in Albums :
          HasEntry(album, u, g) ~> ~HasEntry(album, u, g)

\* the entry of a burst of two photos has been removed by its timer and no
\* timer is left
C36_Witness ==
    /\ album = <<>> /\ timers = {}
    /\ \E u \in Users, g \in Albums :
          Len(popped[u][g]) = 1 /\ Len(popped[u][g][1]) = 2


\* ============================================================= multi-select
\* the selected items before and after one toggle of the descriptor: absent
\* before, it is added; selected before, it is gone; the others stay
Flipped(old, new) ==
    IF Item \in Range(old)
    THEN Range(new) = Range(old) \ {Item}
    ELSE Range(new) = Range(old) \cup {Item}

\* C37: a toggle of an item that is not selected adds it to the accumulator,
\* a toggle of a selected item removes it (so two toggles in a row restore
\* the selected set), and the toggle changes neither the step nor any other
\* field of the draft.
C37_ToggleFlips ==
    [][\A u \in Users :
         /\ QuickEffToggle(u, "item") =>
               /\ Flipped(data[u].form.effects, data'[u].form.effects)
               /\ data'[u] =
                    [data[u] EXCEPT !.form.effects = data'[u].form.effects]
               /\ fsm' = fsm
         /\ TasteToggle(u, "item") =>
               /\ Flipped(data[u].form.cur_taste_sel,
                          data'[u].form.cur_taste_sel)
               /\ data'[u] =
                    [data[u] EXCEPT
                       !.form.cur_taste_sel = data'[u].form.cur_taste_sel]
               /\ fsm' = fsm
         /\ AftertasteToggle(u, "item") =>
               /\ Flipped(data[u].form.cur_aftertaste_sel,
                          data'[u].form.cur_aftertaste_sel)
               /\ data'[u] =
                    [data[u] EXCEPT
                       !.form.cur_aftertaste_sel =
                           data'[u].form.cur_aftertaste_sel]
               /\ fsm' = fsm]_vars

NoItemTwice(sel) ==
    \A i, j \in DOMAIN sel : sel[i] = sel[j] => i = j

\* C38: no accumulator of a multi-select step holds the same item twice,
\* whatever toggles and "other" texts the user has sent.
C38_OrderedSets ==
    \A u \in Users :
       /\ NoItemTwice(data[u].form.effects)
       /\ NoItemTwice(data[u].form.aroma_dry_sel)
       /\ NoItemTwice(data[u].form.aroma_warmed_sel)
       /\ NoItemTwice(data[u].form.cur_taste_sel)
       /\ NoItemTwice(data[u].form.cur_aftertaste_sel)


\* ===================================================================== back
\* C39: a back signal changes the step and the live prompt only.  The
\* handler itself writes nothing into the draft, and the question it sends
\* for the earlier step records its message id and leaves every stored
\* answer and every accumulator as it was.
C39_BackKeepsDraft ==
    [][/\ \A u \in Users :
            QuickBack(u) =>
               /\ data' = data
               /\ \A t \in tasks' \ tasks :
                     t.uid = u /\ t.pc = "asked" /\ t.goto = fsm'[u]
       /\ \A t \in tasks :
            (t.pc = "asked" /\ Asked(t)) =>
               /\ data'[t.uid] =
                     [data[t.uid] EXCEPT !.form.live_q_id = t.ev]
               /\ fsm' = fsm]_vars

\* the user went back from the rating to the effects with effects selected;
\* the question of the effects step is about to be sent
C39_Witness ==
    \E u \in Users, t \in tasks :
       /\ t.uid = u /\ t.pc = "asked" /\ t.goto = "q_eff_pick"
       /\ fsm[u] = "q_eff_pick"
       /\ data[u].form.effects # <<>>
       /\ data[u].form.live_q_id # None


\* ========================================================= failed downloads
\* the files of the batch of task t that its loop has finished with
Handled(t) ==
    SubSeq(t.batch, 1,
           Admitted(Len(t.batch), Len(t.base)) - Len(t.files))

\* C40: a photo whose download fails is not added.  The step that ends the
\* failed photo leaves the draft and the conversation step as they are (the
\* last photo of a finalize flush is followed at once by the save itself
\* and is left out of this part), a download that succeeds stores the list
\* of its handler with the photo at the end, and the list of an album flush
\* is at any moment the list it found followed by the files of the batch
\* handled so far whose download succeeded, in arrival order.
C40_FailedPhotoSkipped ==
    /\ [][\A t \in tasks :
            /\ (Downloaded(t, FALSE) /\ (~IsFinalizer(t) \/ Len(t.files) > 1)) =>
                  data' = data /\ fsm' = fsm
            /\ Downloaded(t, TRUE) =>
                  \/ data'[t.uid].new_photos = Append(t.photos, Head(t.files))
                  \/ IsFinalizer(t) /\ Len(t.files) = 1]_vars
    /\ [](\A t \in tasks :
             t.batch # <<>> =>
                t.photos = t.base \o
                   SelectSeq(Handled(t), LAMBDA f : f \notin t.failed))

\* the first photo of an album could not be downloaded and the second one is
\* in the draft
C40_Witness ==
    \E t \in tasks :
       /\ Len(t.batch) >= 2
       /\ t.batch[1] \in t.failed
       /\ t.batch[2] \in Range(data[t.uid].new_photos)

==============================================================================
